---- MODULE Spec2Model ----
(***************************************************************************)
(* A model of the JIRA MCP server: start-up (custom field initialisation   *)
(* followed by the transport connection), the call-tool dispatcher, and    *)
(* the tool handlers.  Two implementations of the handlers live in the     *)
(* repository and both are modelled: the handlers written inline in the    *)
(* dispatcher of src/jira.ts (impl = "inline") and the handler modules of  *)
(* src/tools (impl = "module").                                            *)
(*                                                                         *)
(* A handler runs from one await to the next in one step: an action issues *)
(* a remote call (appending it to `calls`), and the action that resumes    *)
(* the handler draws the outcome of that call.                             *)
(***************************************************************************)
EXTENDS Integers, Sequences, FiniteSets, TLC

VARIABLES
    initPc,           \* initializeCustomFields: "notStarted", "fetching", "done"
    serverPc,         \* the process: "starting", "serving", "exited"
    customFieldsMap,  \* the module-level Map, as a function from field names to identifiers
    initFailed,       \* history: the catalog fetch of start-up threw
    unknownSeen,      \* history: an unknown tool name has been requested
    req,              \* the call-tool request being handled, or the last one handled
    pc,               \* the handler's position: "idle", the await it is suspended at, "done"
    idx,              \* batch loop: index of the key being processed
    results,          \* batch loop: keys pushed to results[]
    errors,           \* batch loop: keys pushed to errors[]
    user,             \* assign-issue: what the user search resolved to
    calls,            \* remote calls issued by the current tool call, in order
    response,         \* what the tool call ended with
    lastError,        \* the error of the remote call of this tool call that failed last
    fn,               \* helper evaluation: the helper function applied, "none" in the server
    arg,              \* helper evaluation: its argument
    ret,              \* helper evaluation: <<>> before it has returned, <<result>> after
    issueLabels,      \* the tracker: the labels of one issue
    writers           \* the add-labels calls at work on that issue, one record per writer

\* the variables of the server
serverVars == <<initPc, serverPc, customFieldsMap, initFailed, unknownSeen, req, pc,
                idx, results, errors, user, calls, response, lastError>>

\* the variables of the evaluation of a helper function on its own
helperVars == <<fn, arg, ret>>

\* the variables of the tracker's issue and its writers
trackerVars == <<issueLabels, writers>>

vars == <<initPc, serverPc, customFieldsMap, initFailed, unknownSeen, req, pc,
          idx, results, errors, user, calls, response, lastError, fn, arg, ret,
          issueLabels, writers>>

----------------------------------------------------------------------------
(* Bounds of the model *)

\* all key lists up to this length are tried
MaxShort == 2
\* longest key list tried
MaxKeys == 6
\* longest field catalog returned at start-up
MaxCatalog == 2
\* most fields supplied to update-issue
MaxFields == 2
\* most labels in one add-labels request
MaxLabels == 2
\* most times one writer repeats its add-labels call
MaxRuns == 2
\* most pages of filters the tracker serves before a page that ends the listing
MaxPages == 3
\* longest leaf text of a document
MaxText == 2
\* most children of a document node
MaxChildren == 2
\* deepest nesting the renderer is entered at
MaxDepth == 1

----------------------------------------------------------------------------
(* Values *)

Keys == {"K1", "K2"}

RECURSIVE SeqsUpTo(_, _)
SeqsUpTo(S, n) ==
    IF n = 0 THEN {<<>>}
    ELSE LET shorter == SeqsUpTo(S, n - 1)
         IN  shorter \cup {Append(s, x) : s \in {t \in shorter : Len(t) = n - 1}, x \in S}

\* K1, K2, K1, ... : the long key lists (with repeated keys)
Alternating(n) == [i \in 1..n |-> IF i % 2 = 1 THEN "K1" ELSE "K2"]

KeyLists == SeqsUpTo(Keys, MaxShort) \cup {Alternating(n) : n \in (MaxShort + 1)..MaxKeys}

\* JavaScript argument values: the type tag and, for strings and arrays, the elements
Undefined == [t |-> "undefined", v |-> <<>>]
Num == [t |-> "number", v |-> <<>>]
NumOf(n) == [t |-> "number", v |-> <<n>>]
Null == [t |-> "null", v |-> <<>>]
Bool(b) == [t |-> "boolean", v |-> <<b>>]

\* an object with the properties type, content and text; "" for the type and
\* Undefined for the others stand for a property the object does not have
Obj(type, content, text) ==
    [t |-> "object", v |-> [type |-> type, content |-> content, text |-> text]]
Str(chars) == [t |-> "string", v |-> chars]
Arr(elems) == [t |-> "array", v |-> elems]

\* the add-labels calls that may be at work on one issue at a time
Writers == {"w1", "w2"}

\* a writer that has not been called
IdleWriter == [pc |-> "idle", labels |-> <<>>, existing |-> <<>>, wrote |-> <<>>,
               runs |-> 0, ok |-> FALSE]

\* no add-labels call is at work on the issue
TrackerIdle == issueLabels = <<>> /\ writers = [w \in Writers |-> IdleWriter]

IssueKeysArgs == {Undefined, Str(<<"K", "1">>)} \cup {Arr(s) : s \in KeyLists}
StringArgs == {Undefined, Num, Str(<<>>), Str(<<" ">>), Str(<<"5">>)}
LabelsArgs == {Undefined, Str(<<"L", "1">>), Arr(<<>>), Arr(<<"L1">>)}

----------------------------------------------------------------------------
(* src/utils.ts *)

\* a response text: what it starts with, the success and failure groups of a batch
\* text, and whether the message and the response data of a caught error are in it
NoText == [tag |-> "", okShown |-> FALSE, okCount |-> 0, ofTotal |-> 0, okKeys |-> <<>>,
           failShown |-> FALSE, failCount |-> 0, failKeys |-> <<>>,
           errMessage |-> FALSE, errData |-> FALSE]

Text(tag) == [NoText EXCEPT !.tag = tag]

NoResponse == [kind |-> "none", isError |-> "absent", text |-> NoText]

\* { content: [{type: "text", text}], _meta: {} } : isError is not a property of the object
respond(text) == [kind |-> "result", isError |-> "absent", text |-> text]

\* the same with isError: true
fail(text) == [kind |-> "result", isError |-> "true", text |-> text]

\* the promise of the handler rejects: the exception leaves the handler
Thrown(tag) == [kind |-> "thrown", isError |-> "absent", text |-> Text(tag)]

\* the errors a remote call rejects with: an Error with a message only (the request
\* got no reply), or an HTTP error whose response.data holds the tracker's payload
ErrorShapes == {"message", "payload"}

NoError == "none"

\* `${prefix}: ${error.message}`
ErrorMessageText(prefix) == [Text(prefix) EXCEPT !.errMessage = TRUE]

\* `${prefix}: ${error.message}`, and "Response data:" with the payload when
\* error.response.data is set
formatJiraError(prefix, error) ==
    [Text(prefix) EXCEPT !.errMessage = TRUE, !.errData = (error = "payload")]

\* the exception of a rejected remote call leaves the handler: the reply to the
\* request is the JSON-RPC error made of error.message
ThrownError(tag) == [kind |-> "thrown", isError |-> "absent", text |-> ErrorMessageText(tag)]

\* TRUE when validateArray returns an error message, FALSE when it returns null
validateArray(value) == value.t # "array" \/ Len(value.v) = 0

\* the white space and line terminators String.prototype.trim removes (those the
\* texts of the model are made of)
WhiteSpace == {" ", "\n", "\t"}

\* String.prototype.trim, on a sequence of characters
RECURSIVE TrimStart(_)
TrimStart(s) == IF s # <<>> /\ Head(s) \in WhiteSpace THEN TrimStart(Tail(s)) ELSE s

RECURSIVE TrimEnd(_)
TrimEnd(s) ==
    IF s # <<>> /\ s[Len(s)] \in WhiteSpace THEN TrimEnd(SubSeq(s, 1, Len(s) - 1)) ELSE s

Trim(s) == TrimEnd(TrimStart(s))

\* TRUE when validateString returns an error message, FALSE when it returns null
validateString(value) == value.t # "string" \/ Len(Trim(value.v)) = 0

----------------------------------------------------------------------------
(* Argument checks of the batch handlers *)

\* !x in JavaScript, for the values of the model (Num is a non-zero number)
Falsy(value) ==
    \/ value.t \in {"undefined", "null"}
    \/ value.t = "string" /\ value.v = <<>>
    \/ value.t = "number" /\ value.v = <<0>>
    \/ value.t = "boolean" /\ value.v = <<FALSE>>

\* src/jira.ts: !Array.isArray(issueKeys) || issueKeys.length === 0
InlineArrayInvalid(value) == value.t # "array" \/ Len(value.v) = 0

InlineStringInvalid_typeOnly(value) == value.t # "string"

\* src/jira.ts: !transitionId || typeof transitionId !== 'string'
InlineStringInvalid(value) == Falsy(value) \/ value.t # "string"

BatchTools == {"add-labels", "transition-issues", "assign-issue"}

Impls == {"inline", "module"}

\* the second required argument of a batch tool is rejected
SecondArgInvalid(tool, impl, value) ==
    IF tool = "add-labels"
    THEN IF impl = "inline" THEN InlineArrayInvalid(value) ELSE validateArray(value)
    ELSE IF impl = "inline" THEN InlineStringInvalid(value) ELSE validateString(value)

\* the handler returns before its first remote call
Rejected(tool, impl, keysArg, second) ==
    \/ (IF impl = "inline" THEN InlineArrayInvalid(keysArg) ELSE validateArray(keysArg))
    \/ SecondArgInvalid(tool, impl, second)

\* what a rejected call returns: the inline handlers return {isError: true}, the
\* handler modules return respond(message)
ValidationResponse(impl) ==
    IF impl = "inline" THEN fail(Text("validation")) ELSE respond(Text("validation"))

----------------------------------------------------------------------------
(* Start-up: src/jira.ts, initializeCustomFields and the server start *)

\* the fields of a catalog: the tracker does not keep the names of custom fields
\* apart (the third field has the name of the first), and a field may lack a name
\* or an identifier
CatalogFields ==
    { [name |-> "Story Points", id |-> "customfield_10001", custom |-> TRUE],
      [name |-> "Summary", id |-> "summary", custom |-> FALSE],
      [name |-> "Story Points", id |-> "customfield_10003", custom |-> TRUE],
      [name |-> "", id |-> "customfield_10002", custom |-> TRUE],
      [name |-> "Sprint", id |-> "", custom |-> TRUE] }

Catalogs == SeqsUpTo(CatalogFields, MaxCatalog)

EmptyMap == << >>

\* Map.prototype.set
MapSet(m, k, v) == [x \in DOMAIN m \cup {k} |-> IF x = k THEN v ELSE m[x]]

\* Map.prototype.has
MapHas(m, k) == k \in DOMAIN m

RECURSIVE FillMap_allFields(_, _)
FillMap_allFields(m, catalog) ==
    IF catalog = <<>> THEN m
    ELSE LET f == Head(catalog)
         IN  FillMap_allFields(IF f.name # "" /\ f.id # "" THEN MapSet(m, f.name, f.id) ELSE m,
                               Tail(catalog))

\* filter(f => f.custom && f.name && f.id), then set(name, id) for each, in order
RECURSIVE FillMap(_, _)
FillMap(m, catalog) ==
    IF catalog = <<>> THEN m
    ELSE LET f == Head(catalog)
         IN  FillMap(IF f.custom /\ f.name # "" /\ f.id # "" THEN MapSet(m, f.name, f.id) ELSE m,
                     Tail(catalog))

CanConnect_notAwaited == initPc \in {"fetching", "done"}

\* server.connect is reached only after `await initializeCustomFields()` has returned
CanConnect == initPc = "done"

StartInit ==
    /\ serverPc = "starting" /\ initPc = "notStarted"
    /\ initPc' = "fetching"
    /\ UNCHANGED <<serverPc, customFieldsMap, initFailed, unknownSeen, req, pc, idx,
                   results, errors, user, calls, response>>
    /\ UNCHANGED lastError
    /\ UNCHANGED <<helperVars, trackerVars>>

\* getFields resolves: the loop that fills the map has no await in it
InitFetchOk ==
    /\ initPc = "fetching"
    /\ \E catalog \in Catalogs : customFieldsMap' = FillMap(customFieldsMap, catalog)
    /\ initPc' = "done"
    /\ UNCHANGED <<serverPc, initFailed, unknownSeen, req, pc, idx, results, errors,
                   user, calls, response>>
    /\ UNCHANGED lastError
    /\ UNCHANGED <<helperVars, trackerVars>>

\* getFields rejects: the catch logs and initializeCustomFields returns normally
InitFetchFail ==
    /\ initPc = "fetching"
    /\ initPc' = "done"
    /\ initFailed' = TRUE
    /\ UNCHANGED <<serverPc, customFieldsMap, unknownSeen, req, pc, idx, results,
                   errors, user, calls, response>>
    /\ UNCHANGED lastError
    /\ UNCHANGED <<helperVars, trackerVars>>

Connect ==
    /\ serverPc = "starting" /\ CanConnect
    /\ serverPc' = "serving"
    /\ UNCHANGED <<initPc, customFieldsMap, initFailed, unknownSeen, req, pc, idx,
                   results, errors, user, calls, response>>
    /\ UNCHANGED lastError
    /\ UNCHANGED <<helperVars, trackerVars>>

\* server.connect rejects: process.exit(1)
ConnectFail ==
    /\ serverPc = "starting" /\ CanConnect
    /\ serverPc' = "exited"
    /\ UNCHANGED <<initPc, customFieldsMap, initFailed, unknownSeen, req, pc, idx,
                   results, errors, user, calls, response>>
    /\ UNCHANGED lastError
    /\ UNCHANGED <<helperVars, trackerVars>>

\* the dispatcher can take a request: one request is handled at a time
Ready == serverPc = "serving" /\ pc = "idle"

----------------------------------------------------------------------------
(* The batch handlers: add-labels, transition-issues, assign-issue *)

NoReq == [tool |-> "none", impl |-> "none", a1 |-> Undefined, a2 |-> Undefined,
          a3 |-> Undefined, a4 |-> Undefined]

\* a request with two arguments (further ones, where a tool has them, are set apart)
Req(tool, impl, a1, a2) == [tool |-> tool, impl |-> impl, a1 |-> a1, a2 |-> a2,
                            a3 |-> Undefined, a4 |-> Undefined]

\* a remote call, as issued
Call(op, key) == [op |-> op, key |-> key, res |-> "pending", fields |-> <<>>, got |-> <<>>]

Settled_notAwaited(cs, outcome) == cs

\* the remote call the handler is suspended at settles: "ok" or "fail"
Settled(cs, outcome) == [cs EXCEPT ![Len(cs)].res = outcome]

Outcomes == {"ok", "fail"}

\* the first remote call of the per-key operation
PerKeyFirstOp(tool) ==
    CASE tool = "add-labels" -> "getIssue"
      [] tool = "transition-issues" -> "doTransition"
      [] tool = "assign-issue" -> "assignIssue"

\* src/jira.ts, add-labels: `if (issueCount > 5)` and `issues.slice(0, 3)`
ManyIssues == 5
ShownWhenMany == 3

\* the keys the success section of the response text names
NamedSuccesses(tool, impl, res) ==
    IF tool = "add-labels" /\ impl = "inline" /\ Len(res) > ManyIssues
    THEN SubSeq(res, 1, ShownWhenMany)
    ELSE res

AllFailed_anyFailed(errs, n) == Len(errs) > 0

\* errors.length === issueKeys.length
AllFailed(errs, n) == Len(errs) = n

\* the text built after the loop: "<verb> R of N issues" and the result lines, then
\* "Failed E issues" and the error lines
BatchText(tool, impl, res, errs, n) ==
    [tag |-> IF res = <<>> /\ errs = <<>>
             THEN (IF tool = "add-labels" /\ impl = "inline" THEN "" ELSE "No issues processed.")
             ELSE "batch",
     okShown |-> Len(res) > 0,
     okCount |-> Len(res),
     ofTotal |-> IF Len(res) > 0 THEN n ELSE 0,
     okKeys |-> NamedSuccesses(tool, impl, res),
     failShown |-> Len(errs) > 0,
     failCount |-> Len(errs),
     failKeys |-> errs,
     errMessage |-> Len(errs) > 0,
     errData |-> FALSE]

\* inline: {content, isError: errors.length === issueKeys.length};
\* module: respond(msg), with isError = true assigned when every key failed
BatchResponse(tool, impl, res, errs, n) ==
    IF impl = "inline"
    THEN [kind |-> "result",
          isError |-> IF AllFailed(errs, n) THEN "true" ELSE "false",
          text |-> BatchText(tool, impl, res, errs, n)]
    ELSE IF AllFailed(errs, n)
         THEN [respond(BatchText(tool, impl, res, errs, n)) EXCEPT !.isError = "true"]
         ELSE respond(BatchText(tool, impl, res, errs, n))

NextKeyIndex_retry(i, n, failed) == IF failed THEN i ELSE i + 1

NextKeyIndex_failFast(i, n, failed) == IF failed THEN n + 1 ELSE i + 1

\* for (const issueKey of issueKeys) { try {...} catch {...} }: the catch block ends
\* the iteration, never the loop
NextKeyIndex(i, n, failed) == i + 1

\* the per-key operation on key idx has ended: go on with the next key, or build
\* the response when the list is exhausted
AfterKey(res, errs, cs, failed) ==
    LET keys == req.a1.v
        next == NextKeyIndex(idx, Len(keys), failed)
    IN  /\ results' = res
        /\ errors' = errs
        /\ idx' = next
        /\ IF next <= Len(keys)
           THEN /\ pc' = PerKeyFirstOp(req.tool)
                /\ calls' = Append(cs, Call(PerKeyFirstOp(req.tool), keys[next]))
                /\ response' = NoResponse
           ELSE /\ pc' = "done"
                /\ calls' = cs
                /\ response' = BatchResponse(req.tool, req.impl, res, errs, Len(keys))

\* call-tool with the name of a batch tool: the argument checks, then the first await
CallBatch ==
    /\ Ready
    /\ \E tool \in BatchTools, impl \in Impls, keysArg \in IssueKeysArgs :
       \E second \in (IF tool = "add-labels" THEN LabelsArgs ELSE StringArgs) :
          /\ req' = Req(tool, impl, keysArg, second)
          /\ idx' = 1 /\ results' = <<>> /\ errors' = <<>> /\ user' = "none"
          /\ IF Rejected(tool, impl, keysArg, second)
             THEN /\ pc' = "done"
                  /\ calls' = <<>>
                  /\ response' = ValidationResponse(impl)
             ELSE /\ response' = NoResponse
                  /\ IF tool = "assign-issue"
                     THEN /\ pc' = "findUsers"
                          /\ calls' = <<Call("findUsers", "")>>
                     ELSE /\ pc' = PerKeyFirstOp(tool)
                          /\ calls' = <<Call(PerKeyFirstOp(tool), keysArg.v[1])>>
    /\ UNCHANGED <<initPc, serverPc, customFieldsMap, initFailed, unknownSeen>>
    /\ UNCHANGED lastError
    /\ UNCHANGED <<helperVars, trackerVars>>

UserSearchResults == {"throw", "none", "many", "noAccountId", "one"}

\* assign-issue ends at the user search.  inline: the outer catch returns
\* `Error assigning issues: ${error.message}`; module: withJiraError returns
\* fail(formatJiraError(...)); a search that finds no single user is answered with
\* {isError: true} inline and with respond(...) in the module
AssignLookupResponse(impl, found, error) ==
    IF found = "throw"
    THEN IF impl = "inline"
         THEN fail(ErrorMessageText("Error assigning issues"))
         ELSE fail(formatJiraError("Error assigning issues", error))
    ELSE IF impl = "inline"
         THEN fail(Text("Error: " \o found))
         ELSE respond(Text("Error: " \o found))

\* assign-issue: findUsers settles
ResumeFindUsers ==
    /\ pc = "findUsers"
    /\ \E found \in UserSearchResults, e \in ErrorShapes :
          /\ user' = found
          /\ lastError' = IF found = "throw" THEN e ELSE lastError
          /\ IF found = "one"
             THEN /\ pc' = "assignIssue"
                  /\ calls' = Append(Settled(calls, "ok"), Call("assignIssue", req.a1.v[1]))
                  /\ response' = NoResponse
             ELSE /\ pc' = "done"
                  /\ calls' = Settled(calls, IF found = "throw" THEN "fail" ELSE "ok")
                  /\ response' = AssignLookupResponse(req.impl, found, e)
    /\ UNCHANGED <<initPc, serverPc, customFieldsMap, initFailed, unknownSeen, req, idx,
                   results, errors>>
    /\ UNCHANGED <<helperVars, trackerVars>>

\* add-labels: getIssue settles; on success editIssue is issued for the same key
ResumeGetIssue ==
    /\ pc = "getIssue"
    /\ \/ /\ pc' = "editIssue"
          /\ calls' = Append(Settled(calls, "ok"), Call("editIssue", req.a1.v[idx]))
          /\ UNCHANGED <<idx, results, errors, response, lastError>>
       \/ /\ AfterKey(results, Append(errors, req.a1.v[idx]), Settled(calls, "fail"), TRUE)
          /\ lastError' \in ErrorShapes
    /\ UNCHANGED <<initPc, serverPc, customFieldsMap, initFailed, unknownSeen, req, user>>
    /\ UNCHANGED <<helperVars, trackerVars>>

\* the mutating call of the per-key operation settles
ResumeMutation ==
    /\ pc \in {"editIssue", "doTransition", "assignIssue"}
    /\ \/ /\ AfterKey(Append(results, req.a1.v[idx]), errors, Settled(calls, "ok"), FALSE)
          /\ UNCHANGED lastError
       \/ /\ AfterKey(results, Append(errors, req.a1.v[idx]), Settled(calls, "fail"), TRUE)
          /\ lastError' \in ErrorShapes
    /\ UNCHANGED <<initPc, serverPc, customFieldsMap, initFailed, unknownSeen, req, user>>
    /\ UNCHANGED <<helperVars, trackerVars>>

----------------------------------------------------------------------------
(* The dispatcher: src/jira.ts, the CallToolRequestSchema handler *)

SwitchCases ==
    {"search-issues", "list-sprint-tickets", "get-ticket-details", "add-comment",
     "update-description", "list-child-issues", "create-sub-ticket", "link-tickets",
     "create-ticket", "update-issue", "list-issue-fields", "add-labels",
     "transition-issues", "list-issue-transitions", "assign-issue", "list-users",
     "list-jira-filters"}

UnknownNames == {"delete-issue", ""}

Route_firstCase(name) == IF name \in SwitchCases THEN name ELSE "add-comment"

\* switch (name): the case that runs, or "default"
Route(name) == IF name \in SwitchCases THEN name ELSE "default"

\* default: throw new Error(`Unknown tool: ${name}`)
CallUnknown ==
    /\ Ready
    /\ \E name \in UnknownNames :
          /\ Route(name) = "default"
          /\ req' = Req(name, "inline", Undefined, Undefined)
    /\ pc' = "done"
    /\ response' = Thrown("Unknown tool")
    /\ unknownSeen' = TRUE
    /\ calls' = <<>>
    /\ UNCHANGED <<initPc, serverPc, customFieldsMap, initFailed, idx, results, errors, user>>
    /\ UNCHANGED lastError
    /\ UNCHANGED <<helperVars, trackerVars>>

\* the ListToolsRequestSchema handler returns the literal list
ToolRegistry_withoutListUsers ==
    <<"search-issues", "add-labels", "link-tickets", "list-sprint-tickets",
      "get-ticket-details", "add-comment", "update-description", "list-child-issues",
      "create-sub-ticket", "create-ticket", "update-issue", "list-issue-fields",
      "transition-issues", "list-issue-transitions", "assign-issue", "list-jira-filters">>

\* the `name` of each element of the array literal the handler returns, in order
ToolRegistry ==
    <<"search-issues", "add-labels", "link-tickets", "list-sprint-tickets",
      "get-ticket-details", "add-comment", "update-description", "list-child-issues",
      "create-sub-ticket", "create-ticket", "update-issue", "list-issue-fields",
      "transition-issues", "list-issue-transitions", "assign-issue", "list-jira-filters",
      "list-users">>

\* the handler reads no state: async () => ({ tools: [...] })
ListTools ==
    /\ Ready
    /\ req' = Req("tools/list", "inline", Undefined, Undefined)
    /\ pc' = "done"
    /\ response' = [kind |-> "tools", isError |-> "absent", text |-> NoText,
                    tools |-> ToolRegistry]
    /\ UNCHANGED <<initPc, serverPc, customFieldsMap, initFailed, unknownSeen, idx,
                   results, errors, user, calls>>
    /\ UNCHANGED lastError
    /\ UNCHANGED <<helperVars, trackerVars>>

----------------------------------------------------------------------------
(* Handlers that await one remote call outside any try block *)

SimpleTools == {"add-comment", "update-description", "list-child-issues",
                "list-sprint-tickets", "get-ticket-details"}

SimpleOp(tool) ==
    CASE tool = "add-comment" -> "addComment"
      [] tool = "update-description" -> "editIssue"
      [] tool = "list-child-issues" -> "searchForIssuesUsingJql"
      [] tool = "list-sprint-tickets" -> "searchForIssuesUsingJql"
      [] tool = "get-ticket-details" -> "getIssue"

CallSimple ==
    /\ Ready
    /\ \E name \in SimpleTools \cup UnknownNames, impl \in Impls, key \in Keys :
          /\ Route(name) \in SimpleTools
          /\ name \in UnknownNames => impl = "inline"
          /\ req' = Req(name, impl, Str(<<key>>), Undefined)
          /\ calls' = <<Call(SimpleOp(Route(name)), key)>>
    /\ pc' = "simple"
    /\ response' = NoResponse
    /\ unknownSeen' = (unknownSeen \/ req'.tool \in UnknownNames)
    /\ UNCHANGED <<initPc, serverPc, customFieldsMap, initFailed, idx, results, errors, user>>
    /\ UNCHANGED lastError
    /\ UNCHANGED <<helperVars, trackerVars>>

\* the awaited call rejects and no catch block encloses it: the handler's promise rejects
SimpleFailure(tag) == ThrownError(tag)

ResumeSimple ==
    /\ pc = "simple"
    /\ \/ /\ calls' = Settled(calls, "ok")
          /\ response' = respond(Text("ok"))
          /\ UNCHANGED lastError
       \/ /\ calls' = Settled(calls, "fail")
          /\ response' = SimpleFailure("remote error")
          /\ lastError' \in ErrorShapes
    /\ pc' = "done"
    /\ UNCHANGED <<initPc, serverPc, customFieldsMap, initFailed, unknownSeen, req, idx,
                   results, errors, user>>
    /\ UNCHANGED <<helperVars, trackerVars>>

----------------------------------------------------------------------------
(* list-issue-fields and update-issue: the handlers that look names up in the map *)

MapAfterListIssueFields_refresh(m, catalog) == FillMap(m, catalog)

\* the handler calls customFieldsMap.has(field.name) and nothing else on the map
MapAfterListIssueFields(m, catalog) == m

CallListIssueFields ==
    /\ Ready
    /\ \E impl \in Impls : req' = Req("list-issue-fields", impl, Undefined, Undefined)
    /\ calls' = <<Call("getFields", "")>>
    /\ pc' = "getFields"
    /\ response' = NoResponse
    /\ UNCHANGED <<initPc, serverPc, customFieldsMap, initFailed, unknownSeen, idx,
                   results, errors, user>>
    /\ UNCHANGED lastError
    /\ UNCHANGED <<helperVars, trackerVars>>

ResumeListIssueFields ==
    /\ pc = "getFields"
    /\ \/ \E catalog \in Catalogs :
             /\ customFieldsMap' = MapAfterListIssueFields(customFieldsMap, catalog)
             /\ calls' = Settled(calls, "ok")
             /\ response' = respond(Text("fields"))
             /\ UNCHANGED lastError
       \/ /\ calls' = Settled(calls, "fail")
          /\ response' = fail(ErrorMessageText("Error listing issue fields"))
          /\ lastError' \in ErrorShapes
          /\ UNCHANGED customFieldsMap
    /\ pc' = "done"
    /\ UNCHANGED <<initPc, serverPc, initFailed, unknownSeen, req, idx, results, errors, user>>
    /\ UNCHANGED <<helperVars, trackerVars>>

FieldKeys == {"Story Points", "customfield_10001", "priority", "description", "summary"}
FieldValues == {"v1", "v2"}

\* the two shapes of a supplied assignee: {name} without accountId, and {accountId}
AssigneeByName == "{name}"
AssigneeById == "{accountId}"

FieldPairs == (FieldKeys \X FieldValues) \cup ({"assignee"} \X {AssigneeByName, AssigneeById})

\* objects with distinct property names, in insertion order
FieldObjects ==
    {o \in SeqsUpTo(FieldPairs, MaxFields) :
        \A i, j \in 1..Len(o) : i # j => o[i][1] # o[j][1]}

HasKey(obj, k) == \E i \in 1..Len(obj) : obj[i][1] = k

\* obj[k], for a property obj has
ObjGet(obj, k) == obj[CHOOSE i \in 1..Len(obj) : obj[i][1] = k][2]

\* obj[k] = v
ObjSet(obj, k, v) ==
    IF HasKey(obj, k)
    THEN [i \in 1..Len(obj) |-> IF obj[i][1] = k THEN <<k, v>> ELSE obj[i]]
    ELSE Append(obj, <<k, v>>)

\* {...a, ...b}
RECURSIVE Spread(_, _)
Spread(a, b) == IF b = <<>> THEN a ELSE Spread(ObjSet(a, Head(b)[1], Head(b)[2]), Tail(b))

ResolveFieldKey_dropUnknown(m, key) == IF MapHas(m, key) THEN m[key] ELSE "unknown"

\* customFieldsMap.has(key) ? customFieldsMap.get(key) : key
ResolveFieldKey(m, key) == IF MapHas(m, key) THEN m[key] ELSE key

\* for (const [key, value] of Object.entries(processedFields)) finalJiraFields[...] = value
RECURSIVE TranslateFields(_, _, _)
TranslateFields(m, fields, acc) ==
    IF fields = <<>> THEN acc
    ELSE TranslateFields(m, Tail(fields),
                         ObjSet(acc, ResolveFieldKey(m, Head(fields)[1]), Head(fields)[2]))

\* processedFields.assignee is an object with a name and no accountId
NeedsUserSearch(fields) == HasKey(fields, "assignee") /\ ObjGet(fields, "assignee") = AssigneeByName

\* processedFields.assignee = { accountId: userToAssign.accountId }
WithResolvedAssignee(fields) == ObjSet(fields, "assignee", AssigneeById)

\* the assignee lookup of update-issue and create-ticket ends the call: the inner
\* catch returns `Error during assignee lookup: ${userSearchError.message}`
FieldLookupResponse(found) ==
    IF found = "throw"
    THEN fail(ErrorMessageText("Error during assignee lookup"))
    ELSE fail(Text("Error: Assignee lookup failed: " \o found))

\* update-issue, up to its first await
CallUpdateIssue ==
    /\ Ready
    /\ \E key \in Keys, fields \in FieldObjects :
          /\ req' = Req("update-issue", "inline", Str(<<key>>), Arr(fields))
          /\ IF HasKey(fields, "description")
             THEN /\ pc' = "done"
                  /\ calls' = <<>>
                  /\ response' = fail(Text("Error: description"))
             ELSE IF NeedsUserSearch(fields)
             THEN /\ pc' = "updateFindUsers"
                  /\ calls' = <<Call("findUsers", "")>>
                  /\ response' = NoResponse
             ELSE /\ pc' = "updateEdit"
                  /\ calls' = <<[Call("editIssue", key) EXCEPT
                                   !.fields = TranslateFields(customFieldsMap, fields, <<>>)]>>
                  /\ response' = NoResponse
    /\ UNCHANGED <<initPc, serverPc, customFieldsMap, initFailed, unknownSeen, idx,
                   results, errors, user, lastError>>
    /\ UNCHANGED <<helperVars, trackerVars>>

\* update-issue: the user search settles
ResumeUpdateFindUsers ==
    /\ pc = "updateFindUsers"
    /\ \E found \in UserSearchResults, e \in ErrorShapes :
          /\ user' = found
          /\ lastError' = IF found = "throw" THEN e ELSE lastError
          /\ IF found = "one"
             THEN /\ pc' = "updateEdit"
                  /\ calls' = Append(Settled(calls, "ok"),
                                     [Call("editIssue", req.a1.v[1]) EXCEPT
                                        !.fields = TranslateFields(customFieldsMap,
                                                      WithResolvedAssignee(req.a2.v), <<>>)])
                  /\ response' = NoResponse
             ELSE /\ pc' = "done"
                  /\ calls' = Settled(calls, IF found = "throw" THEN "fail" ELSE "ok")
                  /\ response' = FieldLookupResponse(found)
    /\ UNCHANGED <<initPc, serverPc, customFieldsMap, initFailed, unknownSeen, req, idx,
                   results, errors>>
    /\ UNCHANGED <<helperVars, trackerVars>>

ResumeUpdateIssue ==
    /\ pc = "updateEdit"
    /\ \/ /\ calls' = Settled(calls, "ok")
          /\ response' = respond(Text("Request sent"))
          /\ UNCHANGED lastError
       \/ \E e \in ErrorShapes :
             /\ calls' = Settled(calls, "fail")
             /\ response' = fail(formatJiraError("Error updating issue", e))
             /\ lastError' = e
    /\ pc' = "done"
    /\ UNCHANGED <<initPc, serverPc, customFieldsMap, initFailed, unknownSeen, req, idx,
                   results, errors, user>>
    /\ UNCHANGED <<helperVars, trackerVars>>

----------------------------------------------------------------------------
(* create-sub-ticket, and create-ticket with its handleSubTicketCreation *)

\* the parent of the sub-ticket being created
ParentKeyOf(r) == IF r.tool = "create-ticket" THEN r.a3.v[1] ELSE r.a1.v[1]

\* an issue type of the project, as getCreateIssueMeta lists it
IssueType(name, subtask) == [name |-> name, subtask |-> subtask]

\* projects[0].issuetypes of the create metadata; <<>> also when the result has no
\* project (projects?.[0]?.issuetypes is read with optional chaining)
ProjectIssueTypes ==
    {<<>>,
     <<IssueType("Task", FALSE)>>,
     <<IssueType("Task", FALSE), IssueType("Subtask", TRUE)>>,
     <<IssueType("Subtask", TRUE), IssueType("Sub-task", TRUE)>>,
     <<IssueType("Tech", TRUE), IssueType("Task", FALSE), IssueType("Subtask", TRUE)>>}

IssueTypeArgs == {Undefined, Str(<<"Subtask">>), Str(<<"Task">>)}

\* issueType with its default parameter: "Sub-task" in create-sub-ticket, "Task" in
\* create-ticket, which hands it to handleSubTicketCreation
RequestedIssueType(r) ==
    IF r.a4.t = "undefined"
    THEN IF r.tool = "create-ticket" THEN "Task" ELSE "Sub-task"
    ELSE r.a4.v[1]

\* issuetypes.filter(it => it.subtask).map(it => it.name)
RECURSIVE AvailableIssueTypes(_)
AvailableIssueTypes(types) ==
    IF types = <<>> THEN <<>>
    ELSE (IF Head(types).subtask THEN <<Head(types).name>> ELSE <<>>)
         \o AvailableIssueTypes(Tail(types))

FinalIssueType_asRequested(issueType, types) == issueType

\* availableIssueTypes.includes(issueType) ? issueType : availableIssueTypes[0] || "Sub-task"
FinalIssueType(issueType, types) ==
    LET available == AvailableIssueTypes(types)
    IN  IF \E i \in DOMAIN available : available[i] = issueType THEN issueType
        ELSE IF available # <<>> THEN available[1]
        ELSE "Sub-task"

\* createIssuePayload.fields of a sub-ticket (no description was given: the inline
\* code sets the property to undefined, the module leaves it out)
SubTicketFields(impl, parentKey, finalIssueType) ==
    << <<"summary", "summary">>, <<"parent", parentKey>>, <<"project", "project.id">>,
       <<"issuetype", finalIssueType>> >>
    \o (IF impl = "inline" THEN << <<"description", "undefined">> >> ELSE <<>>)

\* what the awaited getIssue and getCreateIssueMeta can give: a rejection, a result
\* without the project, or the project
LookupResults == {"fail", "noProject", "ok"}

\* the catch block of the sub-ticket code: errorDetails with the response data
SubTicketCatch(e) ==
    /\ pc' = "done"
    /\ calls' = Settled(calls, "fail")
    /\ lastError' = e
    /\ response' = fail(formatJiraError("Error creating sub-ticket", e))

CallCreateSubTicket ==
    /\ Ready
    /\ \E impl \in Impls, parentKey \in Keys, issueType \in IssueTypeArgs :
          /\ req' = [Req("create-sub-ticket", impl, Str(<<parentKey>>), Undefined)
                        EXCEPT !.a4 = issueType]
          /\ calls' = <<Call("getIssue", parentKey)>>
    /\ pc' = "subGetIssue"
    /\ response' = NoResponse
    /\ UNCHANGED <<initPc, serverPc, customFieldsMap, initFailed, unknownSeen, idx,
                   results, errors, user, lastError>>
    /\ UNCHANGED <<helperVars, trackerVars>>

\* getIssue on the parent settles
ResumeSubGetIssue ==
    /\ pc = "subGetIssue"
    /\ \E got \in LookupResults, e \in ErrorShapes :
          CASE got = "ok" ->
                 /\ pc' = "subGetMeta"
                 /\ calls' = Append(Settled(calls, "ok"),
                                    Call("getCreateIssueMeta", ParentKeyOf(req)))
                 /\ response' = NoResponse
                 /\ UNCHANGED lastError
            [] got = "noProject" ->
                 /\ pc' = "done"
                 /\ calls' = Settled(calls, "ok")
                 /\ response' = fail(ErrorMessageText("Error creating sub-ticket"))
                 /\ UNCHANGED lastError
            [] got = "fail" -> SubTicketCatch(e)
    /\ UNCHANGED <<initPc, serverPc, customFieldsMap, initFailed, unknownSeen, req, idx,
                   results, errors, user>>
    /\ UNCHANGED <<helperVars, trackerVars>>

\* getCreateIssueMeta of the parent's project settles: projects?.[0]?.issuetypes is
\* read with optional chaining, so a result without the project is no error;
\* `results` holds the issue types of the project
ResumeSubGetMeta ==
    /\ pc = "subGetMeta"
    /\ \/ \E types \in ProjectIssueTypes :
             /\ pc' = "subCreateIssue"
             /\ results' = types
             /\ calls' = Append(Settled(calls, "ok"),
                                [Call("createIssue", ParentKeyOf(req)) EXCEPT
                                   !.fields = SubTicketFields(req.impl, ParentKeyOf(req),
                                                FinalIssueType(RequestedIssueType(req), types))])
             /\ response' = NoResponse
             /\ UNCHANGED lastError
       \/ /\ \E e \in ErrorShapes : SubTicketCatch(e)
          /\ UNCHANGED results
    /\ UNCHANGED <<initPc, serverPc, customFieldsMap, initFailed, unknownSeen, req, idx,
                   errors, user>>
    /\ UNCHANGED <<helperVars, trackerVars>>

ResumeSubCreateIssue ==
    /\ pc = "subCreateIssue"
    /\ \/ /\ pc' = "done"
          /\ calls' = Settled(calls, "ok")
          /\ response' = respond(Text("sub-ticket"))
          /\ UNCHANGED lastError
       \/ \E e \in ErrorShapes : SubTicketCatch(e)
    /\ UNCHANGED <<initPc, serverPc, customFieldsMap, initFailed, unknownSeen, req, idx,
                   results, errors, user>>
    /\ UNCHANGED <<helperVars, trackerVars>>

\* the keys create-ticket skips in `fields`
CoreCreateFields == {"summary", "description", "project", "issuetype", "parent"}

\* additionalJiraFields: the loop over Object.entries(processedFields)
RECURSIVE TranslateCreateFields(_, _, _)
TranslateCreateFields(m, fields, acc) ==
    IF fields = <<>> THEN acc
    ELSE TranslateCreateFields(m, Tail(fields),
            IF Head(fields)[1] \in CoreCreateFields
            THEN acc
            ELSE ObjSet(acc, ResolveFieldKey(m, Head(fields)[1]), Head(fields)[2]))

\* createIssuePayload.fields of create-ticket: the core fields, then ...additionalJiraFields
CreateTicketFields(m, projectKey, fields) ==
    Spread(<< <<"summary", "summary">>, <<"project", projectKey>>,
              <<"issuetype", "finalIssueType">>, <<"description", "undefined">> >>,
           TranslateCreateFields(m, fields, <<>>))

ParentArgs == {Undefined, Str(<<"K1">>)}

\* create-ticket, up to its first await
CallCreateTicket ==
    /\ Ready
    /\ \E projectKey \in Keys, parent \in ParentArgs, fields \in FieldObjects :
          /\ req' = [Req("create-ticket", "inline", Str(<<projectKey>>), Arr(fields))
                        EXCEPT !.a3 = parent]
          /\ IF ~Falsy(parent)
             THEN /\ pc' = "subGetIssue"
                  /\ calls' = <<Call("getIssue", parent.v[1])>>
             ELSE /\ pc' = "createGetMeta"
                  /\ calls' = <<Call("getCreateIssueMeta", projectKey)>>
    /\ response' = NoResponse
    /\ UNCHANGED <<initPc, serverPc, customFieldsMap, initFailed, unknownSeen, idx,
                   results, errors, user, lastError>>
    /\ UNCHANGED <<helperVars, trackerVars>>

\* the catch block of create-ticket: errorDetails with the response data
CreateTicketCatch(e) ==
    /\ pc' = "done"
    /\ calls' = Settled(calls, "fail")
    /\ lastError' = e
    /\ response' = fail(formatJiraError("Error creating ticket", e))

\* the createIssue call of create-ticket for the processed fields
CreateIssueCall(fields) ==
    [Call("createIssue", req.a1.v[1]) EXCEPT
       !.fields = CreateTicketFields(customFieldsMap, req.a1.v[1], fields)]

\* getCreateIssueMeta settles
ResumeCreateGetMeta ==
    /\ pc = "createGetMeta"
    /\ \E got \in LookupResults, e \in ErrorShapes :
          CASE got = "ok" ->
                 /\ IF NeedsUserSearch(req.a2.v)
                    THEN /\ pc' = "createFindUsers"
                         /\ calls' = Append(Settled(calls, "ok"), Call("findUsers", ""))
                    ELSE /\ pc' = "createIssue"
                         /\ calls' = Append(Settled(calls, "ok"), CreateIssueCall(req.a2.v))
                 /\ response' = NoResponse
                 /\ UNCHANGED lastError
            [] got = "noProject" ->
                 /\ pc' = "done"
                 /\ calls' = Settled(calls, "ok")
                 /\ response' = fail(ErrorMessageText("Error creating ticket"))
                 /\ UNCHANGED lastError
            [] got = "fail" -> CreateTicketCatch(e)
    /\ UNCHANGED <<initPc, serverPc, customFieldsMap, initFailed, unknownSeen, req, idx,
                   results, errors, user>>
    /\ UNCHANGED <<helperVars, trackerVars>>

\* create-ticket: the user search settles
ResumeCreateFindUsers ==
    /\ pc = "createFindUsers"
    /\ \E found \in UserSearchResults, e \in ErrorShapes :
          /\ user' = found
          /\ lastError' = IF found = "throw" THEN e ELSE lastError
          /\ IF found = "one"
             THEN /\ pc' = "createIssue"
                  /\ calls' = Append(Settled(calls, "ok"),
                                     CreateIssueCall(WithResolvedAssignee(req.a2.v)))
                  /\ response' = NoResponse
             ELSE /\ pc' = "done"
                  /\ calls' = Settled(calls, IF found = "throw" THEN "fail" ELSE "ok")
                  /\ response' = FieldLookupResponse(found)
    /\ UNCHANGED <<initPc, serverPc, customFieldsMap, initFailed, unknownSeen, req, idx,
                   results, errors>>
    /\ UNCHANGED <<helperVars, trackerVars>>

ResumeCreateIssue ==
    /\ pc = "createIssue"
    /\ \/ /\ pc' = "done"
          /\ calls' = Settled(calls, "ok")
          /\ response' = respond(Text("created"))
          /\ UNCHANGED lastError
       \/ \E e \in ErrorShapes : CreateTicketCatch(e)
    /\ UNCHANGED <<initPc, serverPc, customFieldsMap, initFailed, unknownSeen, req, idx,
                   results, errors, user>>
    /\ UNCHANGED <<helperVars, trackerVars>>

----------------------------------------------------------------------------
(* list-users: the paging loop of the handler module, the single call inline *)

\* `maxResults = 50`, Math.min(Math.max(1, maxResults), 1000) and Math.min(100, ...)
DefaultMaxResults == 50
MostUsers == 1000
PageSize == 100

Min(a, b) == IF a < b THEN a ELSE b
Max(a, b) == IF a > b THEN a ELSE b

MaxResultsArgs == {Undefined, NumOf(0), NumOf(250), NumOf(5000)}

\* validatedMaxResults
ValidatedMaxResults(value) ==
    Min(Max(1, IF value.t = "undefined" THEN DefaultMaxResults ELSE value.v[1]), MostUsers)

RECURSIVE SumSeq(_)
SumSeq(q) == IF q = <<>> THEN 0 ELSE Head(q) + SumSeq(Tail(q))

PageMax_fullPage(validated, pages) == PageSize

\* pageMax, for the pages pushed so far
PageMax(validated, pages) == Min(PageSize, validated - SumSeq(pages))

\* the lengths a page can have: none, one user, a full page, and a page of a
\* tracker that returns one user more than asked for
PageLengths(pageMax) == {n \in {0, 1, pageMax} : n <= pageMax} \cup {pageMax + 1}

\* the awaited call resolves with a page
SettledWith(cs, page) == [Settled(cs, "ok") EXCEPT ![Len(cs)].got = <<page>>]

\* findUsers({startAt, maxResults: pageMax, query})
UsersPageCall(startAt, pageMax) ==
    [Call("findUsers", "") EXCEPT
       !.fields = << <<"startAt", startAt>>, <<"maxResults", pageMax>> >>]

\* the text after the loop
UsersResponse(total) ==
    IF total = 0 THEN respond(Text("No users found.")) ELSE respond(Text("users"))

CallListUsers ==
    /\ Ready
    /\ \E impl \in Impls, maxResults \in MaxResultsArgs :
          /\ req' = Req("list-users", impl, maxResults, Undefined)
          /\ IF impl = "inline"
             THEN /\ pc' = "getAllUsers"
                  /\ calls' = <<Call("getAllUsers", "")>>
             ELSE /\ pc' = "usersPage"
                  /\ calls' = <<UsersPageCall(0, PageMax(ValidatedMaxResults(maxResults), <<>>))>>
    /\ results' = <<>>
    /\ idx' = 0
    /\ response' = NoResponse
    /\ UNCHANGED <<initPc, serverPc, customFieldsMap, initFailed, unknownSeen,
                   errors, user, lastError>>
    /\ UNCHANGED <<helperVars, trackerVars>>

\* the handler module: a page arrives, or findUsers rejects; `results` holds the
\* lengths of the pages pushed and `idx` is startAt
ResumeUsersPage ==
    /\ pc = "usersPage"
    /\ LET validated == ValidatedMaxResults(req.a1)
           pageMax == PageMax(validated, results)
       IN  \/ \E n \in PageLengths(pageMax) :
                LET pages == IF n = 0 THEN results ELSE Append(results, n)
                    total == SumSeq(pages)
                IN  /\ results' = pages
                    /\ IF n >= pageMax /\ total < validated
                       THEN /\ pc' = "usersPage"
                            /\ idx' = idx + n
                            /\ calls' = Append(SettledWith(calls, n),
                                               UsersPageCall(idx + n, PageMax(validated, pages)))
                            /\ response' = NoResponse
                       ELSE /\ pc' = "done"
                            /\ idx' = idx
                            /\ calls' = SettledWith(calls, n)
                            /\ response' = UsersResponse(total)
                    /\ UNCHANGED lastError
           \/ /\ pc' = "done"
              /\ calls' = Settled(calls, "fail")
              /\ response' = fail(ErrorMessageText("Error fetching users"))
              /\ lastError' \in ErrorShapes
              /\ UNCHANGED <<results, idx>>
    /\ UNCHANGED <<initPc, serverPc, customFieldsMap, initFailed, unknownSeen, req,
                   errors, user>>
    /\ UNCHANGED <<helperVars, trackerVars>>

\* inline: getAllUsers settles
ResumeGetAllUsers ==
    /\ pc = "getAllUsers"
    /\ \/ \E n \in {0, 1} :
             /\ calls' = Settled(calls, "ok")
             /\ response' = UsersResponse(n)
             /\ UNCHANGED lastError
       \/ /\ calls' = Settled(calls, "fail")
          /\ response' = fail(ErrorMessageText("Error fetching users"))
          /\ lastError' \in ErrorShapes
    /\ pc' = "done"
    /\ UNCHANGED <<initPc, serverPc, customFieldsMap, initFailed, unknownSeen, req, idx,
                   results, errors, user>>
    /\ UNCHANGED <<helperVars, trackerVars>>

----------------------------------------------------------------------------
(* search-issues: src/unnamed/part_003, and the same code inline in src/jira.ts *)

JqlArgs == {Undefined, Str(<<>>), Str(<<"q">>)}
FilterArgs == {Undefined, Str(<<"x">>)}
StatusCategoryArgs == {Undefined, Str(<<"Done">>), Str(<<"Bogus">>)}

ValidStatusCategories == {<<"To Do">>, <<"In Progress">>, <<"Done">>}

\* jqlParts, each part a list of pieces of text
JqlParts(projectKey, issueType, statusCategory) ==
    (IF Falsy(projectKey) THEN <<>> ELSE << <<"project = ">> \o projectKey.v >>)
    \o (IF Falsy(issueType) THEN <<>> ELSE << <<"issuetype = ">> \o issueType.v >>)
    \o (IF Falsy(statusCategory) THEN <<>> ELSE << <<"statusCategory = ">> \o statusCategory.v >>)

\* jqlParts.join(" AND ")
RECURSIVE JoinAnd(_)
JoinAnd(parts) ==
    IF Len(parts) = 1 THEN Head(parts) ELSE Head(parts) \o <<" AND ">> \o JoinAnd(Tail(parts))

SearchQuery_filtersChecked(customJql, projectKey, issueType, statusCategory) ==
    IF ~Falsy(statusCategory) /\ statusCategory.v \notin ValidStatusCategories
    THEN [ok |-> FALSE, jql |-> <<>>]
    ELSE IF ~Falsy(customJql) THEN [ok |-> TRUE, jql |-> customJql.v]
    ELSE [ok |-> TRUE, jql |-> <<"ORDER BY updated DESC">>]

\* the query the handler sends, or the rejection of the status category
SearchQuery(customJql, projectKey, issueType, statusCategory) ==
    IF ~Falsy(customJql) THEN [ok |-> TRUE, jql |-> customJql.v]
    ELSE IF ~Falsy(statusCategory) /\ statusCategory.v \notin ValidStatusCategories
    THEN [ok |-> FALSE, jql |-> <<>>]
    ELSE LET parts == JqlParts(projectKey, issueType, statusCategory)
         IN  [ok |-> TRUE,
              jql |-> IF Len(parts) > 0 THEN JoinAnd(parts) \o <<" ORDER BY updated DESC">>
                      ELSE <<"ORDER BY updated DESC">>]

CallSearchIssues ==
    /\ Ready
    /\ \E impl \in Impls, customJql \in JqlArgs, projectKey \in FilterArgs,
          issueType \in FilterArgs, statusCategory \in StatusCategoryArgs :
          LET query == SearchQuery(customJql, projectKey, issueType, statusCategory)
          IN  /\ req' = [Req("search-issues", impl, customJql, projectKey)
                           EXCEPT !.a3 = issueType, !.a4 = statusCategory]
              /\ IF query.ok
                 THEN /\ pc' = "search"
                      /\ calls' = <<[Call("searchForIssuesUsingJql", "")
                                       EXCEPT !.fields = query.jql]>>
                      /\ response' = NoResponse
                 ELSE /\ pc' = "done"
                      /\ calls' = <<>>
                      /\ response' = fail(Text("Error: statusCategory must be one of"))
    /\ UNCHANGED <<initPc, serverPc, customFieldsMap, initFailed, unknownSeen, idx,
                   results, errors, user, lastError>>
    /\ UNCHANGED <<helperVars, trackerVars>>

ResumeSearchIssues ==
    /\ pc = "search"
    /\ \/ \E found \in {"No issues found matching the criteria", "issues"} :
             /\ calls' = Settled(calls, "ok")
             /\ response' = respond(Text(found))
             /\ UNCHANGED lastError
       \/ /\ calls' = Settled(calls, "fail")
          /\ response' = fail(ErrorMessageText("Error searching for issues"))
          /\ lastError' \in ErrorShapes
    /\ pc' = "done"
    /\ UNCHANGED <<initPc, serverPc, customFieldsMap, initFailed, unknownSeen, req, idx,
                   results, errors, user>>
    /\ UNCHANGED <<helperVars, trackerVars>>

----------------------------------------------------------------------------
(* link-tickets: src/tools/linkTickets.ts, and the same steps inline in src/jira.ts *)

\* String.prototype.toLowerCase, on the texts the link types of the model carry
ToLowerCase(text) ==
    CASE text \in {"Relates To", "RELATES TO", "relates to"} -> "relates to"
      [] text \in {"Relates", "relates"} -> "relates"
      [] text \in {"Blocks", "blocks"} -> "blocks"
      [] OTHER -> text

\* a link type of the tracker; a property it lacks is Undefined
LinkType(name, inward, outward) == [name |-> name, inward |-> inward, outward |-> outward]

\* linkTypes.issueLinkTypes, as the tracker may return it
LinkTypeLists ==
    {<<>>,
     <<LinkType(Str(<<"Blocks">>), Str(<<"is blocked by">>), Str(<<"blocks">>))>>,
     <<LinkType(Str(<<"Blocks">>), Str(<<"is blocked by">>), Str(<<"blocks">>)),
       LinkType(Str(<<"Relates">>), Str(<<"relates to">>), Str(<<"relates to">>))>>,
     <<LinkType(Str(<<"RELATES TO">>), Str(<<"is related">>), Str(<<"relates">>))>>,
     <<LinkType(Undefined, Str(<<"is related">>), Str(<<"Relates To">>)),
       LinkType(Str(<<"relates to">>), Undefined, Undefined)>>}

\* text?.toLowerCase() === "relates to"
IsRelatesTo(text) == text.t = "string" /\ ToLowerCase(text.v[1]) = "relates to"

\* issueLinkTypes?.find(...): the index of the first link type that matches, 0 if none
FindRelatesTo(types) ==
    LET hits == {i \in DOMAIN types : \/ IsRelatesTo(types[i].name)
                                       \/ IsRelatesTo(types[i].inward)
                                       \/ IsRelatesTo(types[i].outward)}
    IN  IF hits = {} THEN 0 ELSE CHOOSE i \in hits : \A j \in hits : i <= j

LinkFields_swapped(relatesTo, sourceIssueKey, targetIssueKey) ==
    << <<"type", IF Falsy(relatesTo.name) THEN "Relates" ELSE relatesTo.name.v[1]>>,
       <<"inwardIssue", sourceIssueKey>>, <<"outwardIssue", targetIssueKey>> >>

\* the argument of linkIssues
LinkFields(relatesTo, sourceIssueKey, targetIssueKey) ==
    << <<"type", IF Falsy(relatesTo.name) THEN "Relates" ELSE relatesTo.name.v[1]>>,
       <<"inwardIssue", targetIssueKey>>, <<"outwardIssue", sourceIssueKey>> >>

\* the catch of the inline case reports the message; withJiraError of the module
\* reports formatJiraError
LinkError(impl, e) ==
    IF impl = "inline" THEN fail(ErrorMessageText("Error linking tickets"))
    ELSE fail(formatJiraError("Error linking tickets", e))

CallLinkTickets ==
    /\ Ready
    /\ \E impl \in Impls, sourceIssueKey \in Keys, targetIssueKey \in Keys :
          req' = Req("link-tickets", impl, Str(<<sourceIssueKey>>), Str(<<targetIssueKey>>))
    /\ pc' = "linkTypes"
    /\ calls' = <<Call("getIssueLinkTypes", "")>>
    /\ response' = NoResponse
    /\ UNCHANGED <<initPc, serverPc, customFieldsMap, initFailed, unknownSeen, idx,
                   results, errors, user, lastError>>
    /\ UNCHANGED <<helperVars, trackerVars>>

\* getIssueLinkTypes settles; `results` holds the link types returned
ResumeLinkTypes ==
    /\ pc = "linkTypes"
    /\ \/ \E types \in LinkTypeLists :
             /\ results' = types
             /\ IF FindRelatesTo(types) = 0
                THEN /\ pc' = "done"
                     /\ calls' = Settled(calls, "ok")
                     /\ response' = LinkError(req.impl, "message")
                ELSE /\ pc' = "linkIssues"
                     /\ calls' = Append(Settled(calls, "ok"),
                                        [Call("linkIssues", req.a1.v[1]) EXCEPT
                                           !.fields = LinkFields(types[FindRelatesTo(types)],
                                                                 req.a1.v[1], req.a2.v[1])])
                     /\ response' = NoResponse
             /\ UNCHANGED lastError
       \/ \E e \in ErrorShapes :
             /\ pc' = "done"
             /\ calls' = Settled(calls, "fail")
             /\ response' = LinkError(req.impl, e)
             /\ lastError' = e
             /\ UNCHANGED results
    /\ UNCHANGED <<initPc, serverPc, customFieldsMap, initFailed, unknownSeen, req, idx,
                   errors, user>>
    /\ UNCHANGED <<helperVars, trackerVars>>

ResumeLinkIssues ==
    /\ pc = "linkIssues"
    /\ \/ /\ calls' = Settled(calls, "ok")
          /\ response' = respond(Text("Successfully linked"))
          /\ UNCHANGED lastError
       \/ \E e \in ErrorShapes :
             /\ calls' = Settled(calls, "fail")
             /\ response' = LinkError(req.impl, e)
             /\ lastError' = e
    /\ pc' = "done"
    /\ UNCHANGED <<initPc, serverPc, customFieldsMap, initFailed, unknownSeen, req, idx,
                   results, errors, user>>
    /\ UNCHANGED <<helperVars, trackerVars>>

----------------------------------------------------------------------------
(* list-jira-filters: src/tools/listJiraFilters.ts, and the same loop inline in  *)
(* src/jira.ts                                                                 *)

FiltersPageSize == 50

\* a page of getFiltersPaginated: whether it has `values` and how many, and its
\* isLast property ("absent" when it has none)
FilterPage(hasValues, length, isLast) ==
    [hasValues |-> hasValues, length |-> length, isLast |-> isLast]

FilterPages ==
    {FilterPage(TRUE, n, l) : n \in {0, 1, FiltersPageSize, FiltersPageSize + 1},
                              l \in {"absent", "true", "false"}}
    \cup {FilterPage(FALSE, 0, l) : l \in {"absent", "true", "false"}}

\* isLast after the body of the loop has run on the page
IsLastPage(page) ==
    \/ page.isLast \in {"absent", "true"}
    \/ ~page.hasValues
    \/ page.length < FiltersPageSize

FiltersStartAt_byPageSize(startAt, page) ==
    IF page.isLast = "false" THEN startAt + FiltersPageSize ELSE startAt

\* if (!isLast) startAt += filtersResponse.values?.length || maxResults
FiltersStartAt(startAt, page) ==
    IF page.isLast = "false"
    THEN startAt + (IF page.hasValues /\ page.length > 0 THEN page.length ELSE FiltersPageSize)
    ELSE startAt

\* getFiltersPaginated({expand, startAt, maxResults})
FiltersPageCall(startAt) ==
    [Call("getFiltersPaginated", "") EXCEPT
       !.fields = << <<"startAt", startAt>>, <<"maxResults", FiltersPageSize>> >>]

\* the text after the loop
FiltersResponse(total) ==
    IF total = 0 THEN respond(Text("No filters found."))
    ELSE respond([Text("Total filters found") EXCEPT !.okCount = total])

CallListFilters ==
    /\ Ready
    /\ \E impl \in Impls : req' = Req("list-jira-filters", impl, Undefined, Undefined)
    /\ pc' = "filtersPage"
    /\ calls' = <<FiltersPageCall(0)>>
    /\ results' = <<>>
    /\ idx' = 0
    /\ response' = NoResponse
    /\ UNCHANGED <<initPc, serverPc, customFieldsMap, initFailed, unknownSeen,
                   errors, user, lastError>>
    /\ UNCHANGED <<helperVars, trackerVars>>

\* a page arrives, or getFiltersPaginated rejects; `results` holds the lengths of
\* the pages concatenated to allFilters and `idx` is startAt.  The tracker serves
\* at most MaxPages pages that do not end the listing.
ResumeFiltersPage ==
    /\ pc = "filtersPage"
    /\ \/ \E page \in FilterPages :
             LET pages == IF page.hasValues /\ page.length > 0
                          THEN Append(results, page.length) ELSE results
             IN  /\ ~IsLastPage(page) => Len(calls) <= MaxPages
                 /\ results' = pages
                 /\ idx' = FiltersStartAt(idx, page)
                 /\ IF IsLastPage(page)
                    THEN /\ pc' = "done"
                         /\ calls' = SettledWith(calls, page)
                         /\ response' = FiltersResponse(SumSeq(pages))
                    ELSE /\ pc' = "filtersPage"
                         /\ calls' = Append(SettledWith(calls, page),
                                            FiltersPageCall(FiltersStartAt(idx, page)))
                         /\ response' = NoResponse
                 /\ UNCHANGED lastError
       \/ /\ pc' = "done"
          /\ calls' = Settled(calls, "fail")
          /\ response' = fail(ErrorMessageText("Error fetching Jira filters"))
          /\ lastError' \in ErrorShapes
          /\ UNCHANGED <<results, idx>>
    /\ UNCHANGED <<initPc, serverPc, customFieldsMap, initFailed, unknownSeen, req,
                   errors, user>>
    /\ UNCHANGED <<helperVars, trackerVars>>

\* the handler's promise has settled: the SDK writes the reply to the transport, and
\* the locals of the call are gone
SendResponse ==
    /\ pc = "done"
    /\ pc' = "idle"
    /\ req' = NoReq /\ idx' = 1 /\ results' = <<>> /\ errors' = <<>> /\ user' = "none"
    /\ calls' = <<>> /\ response' = NoResponse /\ lastError' = NoError
    /\ UNCHANGED <<initPc, serverPc, customFieldsMap, initFailed, unknownSeen>>
    /\ UNCHANGED <<helperVars, trackerVars>>

----------------------------------------------------------------------------

\* the process before its first step
ServerInit ==
    /\ initPc = "notStarted"
    /\ serverPc = "starting"
    /\ customFieldsMap = EmptyMap
    /\ initFailed = FALSE
    /\ unknownSeen = FALSE
    /\ req = NoReq
    /\ pc = "idle"
    /\ idx = 1
    /\ results = <<>>
    /\ errors = <<>>
    /\ user = "none"
    /\ calls = <<>>
    /\ response = NoResponse
    /\ lastError = NoError

Init ==
    /\ ServerInit
    /\ fn = "none" /\ arg = <<>> /\ ret = <<>>
    /\ TrackerIdle

Next ==
    \/ StartInit
    \/ InitFetchOk
    \/ InitFetchFail
    \/ Connect
    \/ ConnectFail
    \/ CallBatch
    \/ ResumeFindUsers
    \/ ResumeGetIssue
    \/ ResumeMutation
    \/ CallUnknown
    \/ ListTools
    \/ CallSimple
    \/ ResumeSimple
    \/ CallListIssueFields
    \/ ResumeListIssueFields
    \/ CallUpdateIssue
    \/ ResumeUpdateFindUsers
    \/ ResumeUpdateIssue
    \/ CallCreateSubTicket
    \/ ResumeSubGetIssue
    \/ ResumeSubGetMeta
    \/ ResumeSubCreateIssue
    \/ CallCreateTicket
    \/ ResumeCreateGetMeta
    \/ ResumeCreateFindUsers
    \/ ResumeCreateIssue
    \/ CallListUsers
    \/ ResumeUsersPage
    \/ ResumeGetAllUsers
    \/ CallSearchIssues
    \/ ResumeSearchIssues
    \/ CallLinkTickets
    \/ ResumeLinkTypes
    \/ ResumeLinkIssues
    \/ CallListFilters
    \/ ResumeFiltersPage
    \/ SendResponse

Spec == Init /\ [][Next]_vars

----------------------------------------------------------------------------
(* The paging loops on their own, in a server that is serving; the tracker        *)
(* answers every request it is sent                                             *)

\* the server after a start-up whose catalog fetch failed: it serves with an empty map
PagingInit ==
    /\ initPc = "done"
    /\ serverPc = "serving"
    /\ customFieldsMap = EmptyMap
    /\ initFailed = TRUE
    /\ unknownSeen = FALSE
    /\ req = NoReq
    /\ pc = "idle"
    /\ idx = 1
    /\ results = <<>>
    /\ errors = <<>>
    /\ user = "none"
    /\ calls = <<>>
    /\ response = NoResponse
    /\ lastError = NoError
    /\ fn = "none" /\ arg = <<>> /\ ret = <<>>
    /\ TrackerIdle

PagingNext ==
    \/ CallListUsers
    \/ ResumeUsersPage
    \/ ResumeGetAllUsers
    \/ CallListFilters
    \/ ResumeFiltersPage
    \/ SendResponse

PagingSpec ==
    /\ PagingInit
    /\ [][PagingNext]_vars
    /\ WF_vars(ResumeUsersPage)
    /\ WF_vars(ResumeFiltersPage)

----------------------------------------------------------------------------
(* The document renderer and the value helpers: src/unnamed/part_006, and the    *)
(* same code in src/jira.ts                                                    *)

\* node.type, node.content, node.text: undefined on a value that is no object
TypeOf(node) == IF node.t = "object" THEN node.v.type ELSE ""
ContentOf(node) == IF node.t = "object" THEN node.v.content ELSE Undefined
TextOf(node) == IF node.t = "object" THEN node.v.text ELSE Undefined

\* how a call of the renderer ends: it returns a string, or a TypeError is thrown
Returned(s) == [ok |-> TRUE, s |-> s]
TypeError == [ok |-> FALSE, s |-> <<>>]

NoDescription == <<"N", "o", " ", "d", "e", "s", "c", "r", "i", "p", "t", "i", "o", "n">>

\* the bullet glyph U+2022, written in ASCII here
Bullet == "*"

NewLine == "\n"

\* String.prototype.repeat
RECURSIVE Repeat(_, _)
Repeat(s, n) == IF n = 0 THEN <<>> ELSE s \o Repeat(s, n - 1)

\* "  ".repeat(depth)
Indent(depth) == Repeat(<<" ", " ">>, depth)

\* text || "", for a leaf text that is a string or absent
OrEmpty(text) == IF Falsy(text) THEN <<>> ELSE text.v

\* node.content?.[0]?.text || ""
HeadingText(content) ==
    LET first == CASE content.t = "array" /\ content.v # <<>> -> content.v[1]
                   [] content.t = "string" /\ content.v # <<>> -> Str(<<content.v[1]>>)
                   [] OTHER -> Undefined
    IN  OrEmpty(TextOf(first))

\* node.content.map(content => content.text || "").join(""): reading .text of a
\* null or undefined element throws
RECURSIVE JoinTexts(_)
JoinTexts(elems) ==
    IF elems = <<>> THEN Returned(<<>>)
    ELSE IF Head(elems).t \in {"null", "undefined"} THEN TypeError
    ELSE LET rest == JoinTexts(Tail(elems))
         IN  IF rest.ok THEN Returned(OrEmpty(TextOf(Head(elems))) \o rest.s) ELSE TypeError

ParagraphLine_untrimmed(indent, text) ==
    IF text # <<>> THEN Returned(indent \o text \o <<NewLine>>) ELSE Returned(<<>>)

\* paragraphText = (...).trim(); if (paragraphText) result += `${indent}${paragraphText}\n`
ParagraphLine(indent, text) ==
    IF Trim(text) # <<>> THEN Returned(indent \o Trim(text) \o <<NewLine>>) ELSE Returned(<<>>)

\* case "paragraph": a truthy content that has no map method throws
RenderParagraph(content, depth) ==
    IF Falsy(content) THEN Returned(<<>>)
    ELSE IF content.t # "array" THEN TypeError
    ELSE LET joined == JoinTexts(content.v)
         IN  IF joined.ok THEN ParagraphLine(Indent(depth), joined.s) ELSE TypeError

ListItemLine_untrimmed(indent, itemContent) ==
    indent \o <<Bullet, " ">> \o itemContent \o <<NewLine>>

\* `${indent}* ${itemContent}\n`, itemContent being the trimmed join
ListItemLine(indent, itemContent) ==
    indent \o <<Bullet, " ">> \o Trim(itemContent) \o <<NewLine>>

RECURSIVE extractTextFromADF(_, _)

\* node.content.map(content => extractTextFromADF(content, depth)).join("")
RECURSIVE JoinRendered(_, _)
JoinRendered(elems, depth) ==
    IF elems = <<>> THEN Returned(<<>>)
    ELSE LET first == extractTextFromADF(Head(elems), depth)
             rest == JoinRendered(Tail(elems), depth)
         IN  IF first.ok /\ rest.ok THEN Returned(first.s \o rest.s) ELSE TypeError

extractTextFromADF(node, depth) ==
    IF Falsy(node) THEN Returned(NoDescription)
    ELSE IF node.t = "string" THEN Returned(Indent(depth) \o node.v)
    ELSE LET content == ContentOf(node)
         IN  CASE TypeOf(node) = "heading" ->
                    Returned(Indent(depth) \o HeadingText(content) \o <<NewLine>>)
               [] TypeOf(node) = "paragraph" ->
                    RenderParagraph(content, depth)
               [] TypeOf(node) \in {"bulletList", "orderedList"} ->
                    IF Falsy(content) THEN Returned(<<>>)
                    ELSE IF content.t # "array" THEN TypeError
                    ELSE JoinRendered(content.v, depth)
               [] TypeOf(node) = "listItem" ->
                    IF Falsy(content) THEN Returned(<<>>)
                    ELSE IF content.t # "array" THEN TypeError
                    ELSE LET joined == JoinRendered(content.v, depth + 1)
                         IN  IF joined.ok
                             THEN Returned(ListItemLine(Indent(depth), joined.s))
                             ELSE TypeError
               [] OTHER ->
                    IF content.t = "array" THEN JoinRendered(content.v, depth)
                    ELSE IF ~Falsy(TextOf(node)) THEN Returned(Indent(depth) \o TextOf(node).v)
                    ELSE Returned(<<>>)

\* src/utils.ts, buildADF: the document of one paragraph of one text node
buildADF(text) ==
    Obj("doc", Arr(<<Obj("paragraph", Arr(<<Obj("text", Undefined, Str(text))>>), Undefined)>>),
        Undefined)

\* how a call of hasMeaningfulValue ends: it returns a boolean, or the renderer threw
Answer(b) == [ok |-> TRUE, b |-> b]
NoAnswer == [ok |-> FALSE, b |-> FALSE]

NonBlank_nonEmpty(s) == Len(s) > 0

\* value.trim().length > 0
NonBlank(s) == Len(Trim(s)) > 0

\* the own properties of an object of the model, in the order the two loops of
\* hasMeaningfulValue read them: candidateKeys (of which it has "text"), then for-in
OwnValues(value) ==
    <<value.v.text,
      IF value.v.type = "" THEN Undefined ELSE Str(<<value.v.type>>),
      value.v.content,
      value.v.text>>

RECURSIVE hasMeaningfulValue(_)

\* value.some(item => hasMeaningfulValue(item)), and the two key loops: the first
\* meaningful element ends the search
RECURSIVE SomeMeaningful(_)
SomeMeaningful(elems) ==
    IF elems = <<>> THEN Answer(FALSE)
    ELSE LET first == hasMeaningfulValue(Head(elems))
         IN  IF ~first.ok \/ first.b THEN first ELSE SomeMeaningful(Tail(elems))

hasMeaningfulValue(value) ==
    CASE value.t \in {"null", "undefined"} -> Answer(FALSE)
      [] value.t = "string" -> Answer(NonBlank(value.v))
      [] value.t \in {"number", "boolean"} -> Answer(TRUE)
      [] value.t = "array" -> SomeMeaningful(value.v)
      [] value.t = "object" ->
           IF value.v.type = "doc"
           THEN LET text == extractTextFromADF(value, 0)
                IN  IF text.ok THEN Answer(Len(Trim(text.s)) > 0) ELSE NoAnswer
           ELSE SomeMeaningful(OwnValues(value))

----------------------------------------------------------------------------
(* The arguments the helpers are evaluated on *)

Chars == {"a", " ", "\n"}

Texts == SeqsUpTo(Chars, MaxText)

TextNode(text) == Obj("text", Undefined, Str(text))

\* a node with neither children nor text
HardBreak == Obj("hardBreak", Undefined, Undefined)

\* the children of a paragraph
Inlines == {TextNode(t) : t \in Texts} \cup {HardBreak, Null}
FewInlines == {TextNode(<<"a">>), TextNode(<<" ">>), Null}

\* values of `content` that are no arrays
NoArrays == {Undefined, Null, Str(<<"a">>), Num, Obj("", Undefined, Undefined)}

ArraysOf(S, n) == {Arr(q) : q \in SeqsUpTo(S, n)}

Paragraphs ==
    {Obj("paragraph", c, Undefined) :
        c \in NoArrays \cup ArraysOf(Inlines, 1) \cup ArraysOf(FewInlines, MaxChildren)}

Headings ==
    {Obj("heading", c, Undefined) : c \in NoArrays \cup ArraysOf(FewInlines, 1)}

\* a paragraph of one text node
Paragraph(text) == Obj("paragraph", Arr(<<TextNode(text)>>), Undefined)

ListItem(children) == Obj("listItem", Arr(children), Undefined)

\* a list nested in a list item
InnerList == Obj("bulletList", Arr(<<ListItem(<<Paragraph(<<"a">>)>>)>>), Undefined)

\* the children of a list item
Blocks == {Paragraph(<<"a">>), Paragraph(<<" ", "a">>), Paragraph(<<>>), InnerList,
           Null, Str(<<"a">>)}

ListItems ==
    {Obj("listItem", c, Undefined) : c \in NoArrays \cup ArraysOf(Blocks, MaxChildren)}

\* the children of a list
FewListItems ==
    {ListItem(<<Paragraph(<<"a">>)>>), ListItem(<<Paragraph(<<" ", "a">>)>>),
     ListItem(<<Paragraph(<<>>)>>), ListItem(<<>>),
     ListItem(<<Paragraph(<<"a">>), InnerList>>),
     Obj("listItem", Undefined, Undefined), Null}

Lists ==
    {Obj(kind, c, Undefined) :
        kind \in {"bulletList", "orderedList"},
        c \in NoArrays \cup ArraysOf(FewListItems, MaxChildren)}

Documents ==
    {buildADF(t) : t \in Texts}
    \cup {Obj("doc", c, Undefined) :
             c \in NoArrays \cup ArraysOf({Paragraph(<<"a">>), Paragraph(<<>>), InnerList}, MaxChildren)}

\* nodes of a kind the switch has no case for
OtherNodes ==
    {Obj(kind, c, text) :
        kind \in {"panel", ""},
        c \in {Undefined, Str(<<"a">>), Arr(<<>>), Arr(<<Paragraph(<<"a">>)>>)},
        text \in {Undefined, Str(<<"a">>)}}

Scalars == {Null, Undefined, Num, NumOf(0), Bool(TRUE), Bool(FALSE), Str(<<"0">>)}
           \cup {Str(t) : t \in Texts}

RenderArgs ==
    {[node |-> n, depth |-> d] :
        n \in Scalars \cup Paragraphs \cup Headings \cup ListItems \cup Lists
              \cup Documents \cup OtherNodes \cup {Arr(<<>>), Arr(<<Paragraph(<<"a">>)>>)},
        d \in 0..MaxDepth}

FewValues == {Null, Str(<<>>), Str(<<" ">>), Str(<<"0">>), NumOf(0), Bool(FALSE), Arr(<<>>),
              buildADF(<<>>)}

MeaningfulArgs ==
    Scalars \cup ArraysOf(FewValues, MaxChildren) \cup Documents \cup OtherNodes
    \cup {Paragraph(<<>>), HardBreak}

----------------------------------------------------------------------------
(* get-ticket-details: the custom fields of the fetched issue *)

\* the text formatFieldValue returns for null and undefined
NotSet == <<"Not set">>

\* String(value) of a number or a boolean, and JSON.stringify(value): one token each
StringOf(value) ==
    CASE value.t = "string" -> value.v
      [] value.t = "number" -> <<"number">>
      [] value.t = "boolean" -> <<"boolean">>

RECURSIVE formatFieldValue(_)

\* value.map(item => formatFieldValue(item)).join(", ")
RECURSIVE FormatItems(_)
FormatItems(items) ==
    IF items = <<>> THEN Returned(<<>>)
    ELSE LET first == formatFieldValue(Head(items))
             rest == FormatItems(Tail(items))
         IN  IF ~first.ok \/ ~rest.ok THEN TypeError
             ELSE IF Len(items) = 1 THEN first
             ELSE Returned(first.s \o <<",", " ">> \o rest.s)

\* no object of the model has a displayName
formatFieldValue(value) ==
    CASE value.t \in {"null", "undefined"} -> Returned(NotSet)
      [] value.t = "object" ->
           IF value.v.type = "doc" THEN extractTextFromADF(value, 0)
           ELSE Returned(<<"{}">>)
      [] value.t = "array" -> FormatItems(value.v)
      [] OTHER -> Returned(StringOf(value))

\* the condition under which the loop over customFieldsMap.entries() keeps a field:
\* hasMeaningfulValue(raw) in the handler module, issue.fields[fieldId] !== undefined
\* in the inline case
ListsField(impl, raw) ==
    IF impl = "inline" THEN Answer(raw.t # "undefined") ELSE hasMeaningfulValue(raw)

\* the text put in place of the section when customFieldsData has no key
NoCustomFields(impl) == IF impl = "inline" THEN "No custom fields configured" ELSE ""

\* customFieldsData and customFieldsSection: the names kept with their formatted
\* values, and the heading of the section; not ok when a helper threw
CustomFieldsSection(impl, m, fields) ==
    LET keeps(n) == ListsField(impl, fields[m[n]])
        listed == {n \in DOMAIN m : keeps(n).ok /\ keeps(n).b}
        threw == \/ \E n \in DOMAIN m : ~keeps(n).ok
                 \/ \E n \in listed : ~formatFieldValue(fields[m[n]]).ok
    IN  IF threw THEN [ok |-> FALSE, data |-> <<>>, section |-> ""]
        ELSE [ok |-> TRUE,
              data |-> [n \in listed |-> formatFieldValue(fields[m[n]]).s],
              section |-> IF listed # {} THEN "Custom Fields:" ELSE NoCustomFields(impl)]

\* the maps and the issues the section is built from
TicketFieldIds == {"customfield_10001", "customfield_10002"}

TicketMaps ==
    {EmptyMap,
     MapSet(EmptyMap, "Story Points", "customfield_10001"),
     MapSet(MapSet(EmptyMap, "Story Points", "customfield_10001"), "Team", "customfield_10002")}

\* what issue.fields holds under a field id; Undefined when it has no such property
TicketFieldValues ==
    {Undefined, Null, Str(<<>>), Str(<<" ">>), Str(<<"a">>), NumOf(0), Bool(FALSE),
     Arr(<<>>), Arr(<<Null>>), Arr(<<Null, Str(<<"a">>)>>), buildADF(<<>>), buildADF(<<"a">>)}

TicketArgs ==
    {[impl |-> i, m |-> m, fields |-> f] :
        i \in Impls, m \in TicketMaps, f \in [TicketFieldIds -> TicketFieldValues]}

EvalCustomFieldsSection ==
    /\ fn = "customFieldsSection" /\ ret = <<>>
    /\ ret' = <<CustomFieldsSection(arg.impl, arg.m, arg.fields)>>
    /\ UNCHANGED <<fn, arg>>
    /\ UNCHANGED <<serverVars, trackerVars>>

----------------------------------------------------------------------------
(* The helper specification *)

\* the try block of initializeCustomFields on the catalog getFields returned, from
\* the empty map of the module
EvalFillMap ==
    /\ fn = "FillMap" /\ ret = <<>>
    /\ ret' = <<FillMap(EmptyMap, arg)>>
    /\ UNCHANGED <<fn, arg>>
    /\ UNCHANGED <<serverVars, trackerVars>>

EvalExtractText ==
    /\ fn = "extractTextFromADF" /\ ret = <<>>
    /\ ret' = <<extractTextFromADF(arg.node, arg.depth)>>
    /\ UNCHANGED <<fn, arg>>
    /\ UNCHANGED <<serverVars, trackerVars>>

EvalHasMeaningfulValue ==
    /\ fn = "hasMeaningfulValue" /\ ret = <<>>
    /\ ret' = <<hasMeaningfulValue(arg)>>
    /\ UNCHANGED <<fn, arg>>
    /\ UNCHANGED <<serverVars, trackerVars>>

HelperInit ==
    /\ ServerInit
    /\ TrackerIdle
    /\ ret = <<>>
    /\ \/ fn = "FillMap" /\ arg \in Catalogs
       \/ fn = "extractTextFromADF" /\ arg \in RenderArgs
       \/ fn = "hasMeaningfulValue" /\ arg \in MeaningfulArgs
       \/ fn = "customFieldsSection" /\ arg \in TicketArgs

HelperNext ==
    \/ EvalFillMap
    \/ EvalExtractText
    \/ EvalHasMeaningfulValue
    \/ EvalCustomFieldsSection

HelperSpec == HelperInit /\ [][HelperNext]_vars

----------------------------------------------------------------------------
(* add-labels on one issue of the tracker: the body of the loop of              *)
(* src/unnamed/part_009 (and src/jira.ts), run by several calls at once         *)

LabelNames == {"a", "b"}

\* the labels argument: validateArray has let a non-empty array through
RequestedLabels == SeqsUpTo(LabelNames, MaxLabels) \ {<<>>}

\* the labels the issue has before any of the calls
InitialLabels == {<<>>, <<"c">>, <<"a">>, <<"c", "a">>}

\* [...new Set(list)]: the first occurrence of each element, in order
RECURSIVE Unique(_)
Unique(list) ==
    IF list = <<>> THEN <<>>
    ELSE LET front == Unique(SubSeq(list, 1, Len(list) - 1))
             last == list[Len(list)]
         IN  IF \E i \in DOMAIN front : front[i] = last THEN front ELSE Append(front, last)

Combined_requestedOnly(existing, labels) == Unique(labels)

\* [...new Set([...existing, ...labels])]
Combined(existing, labels) == Unique(existing \o labels)

\* a call of add-labels for the issue arrives: getIssue is issued
CallAddLabels(w) ==
    /\ writers[w].pc = "idle"
    /\ \E labels \in RequestedLabels :
          writers' = [writers EXCEPT ![w] = [IdleWriter EXCEPT !.pc = "getIssue",
                                                              !.labels = labels,
                                                              !.runs = 1]]
    /\ UNCHANGED issueLabels
    /\ UNCHANGED <<serverVars, helperVars>>

\* the same call is made once more
RepeatAddLabels(w) ==
    /\ writers[w].pc = "done"
    /\ writers[w].runs < MaxRuns
    /\ writers' = [writers EXCEPT ![w] = [IdleWriter EXCEPT !.pc = "getIssue",
                                                            !.labels = writers[w].labels,
                                                            !.runs = writers[w].runs + 1]]
    /\ UNCHANGED issueLabels
    /\ UNCHANGED <<serverVars, helperVars>>

\* getIssue settles: the labels of the issue as they are now, or a rejection; the
\* handler computes the combined list and issues editIssue
LabelsRead(w) ==
    /\ writers[w].pc = "getIssue"
    /\ \/ writers' = [writers EXCEPT ![w].pc = "editIssue",
                                     ![w].existing = issueLabels,
                                     ![w].wrote = Combined(issueLabels, writers[w].labels)]
       \/ writers' = [writers EXCEPT ![w].pc = "done", ![w].ok = FALSE]
    /\ UNCHANGED issueLabels
    /\ UNCHANGED <<serverVars, helperVars>>

\* editIssue settles: the tracker has replaced the labels of the issue by the list
\* sent, or has rejected the request
LabelsWritten(w) ==
    /\ writers[w].pc = "editIssue"
    /\ \/ /\ issueLabels' = writers[w].wrote
          /\ writers' = [writers EXCEPT ![w].pc = "done", ![w].ok = TRUE]
       \/ /\ writers' = [writers EXCEPT ![w].pc = "done", ![w].ok = FALSE]
          /\ UNCHANGED issueLabels
    /\ UNCHANGED <<serverVars, helperVars>>

LabelsInit ==
    /\ ServerInit
    /\ fn = "none" /\ arg = <<>> /\ ret = <<>>
    /\ issueLabels \in InitialLabels
    /\ writers = [w \in Writers |-> IdleWriter]

LabelsNext ==
    \/ \E w \in Writers : CallAddLabels(w)
    \/ \E w \in Writers : RepeatAddLabels(w)
    \/ \E w \in Writers : LabelsRead(w)
    \/ \E w \in Writers : LabelsWritten(w)

LabelsSpec == LabelsInit /\ [][LabelsNext]_vars

----------------------------------------------------------------------------
(* Vocabulary of the properties *)

\* the keys of the calls of cs made with operation op, in the order issued
RECURSIVE KeysOfCalls(_, _)
KeysOfCalls(cs, op) ==
    IF cs = <<>> THEN <<>>
    ELSE IF Head(cs).op = op
         THEN <<Head(cs).key>> \o KeysOfCalls(Tail(cs), op)
         ELSE KeysOfCalls(Tail(cs), op)

\* the keys whose call with operation op settled "ok", in order
RECURSIVE KeysSucceeded(_, _)
KeysSucceeded(cs, op) ==
    IF cs = <<>> THEN <<>>
    ELSE IF Head(cs).op = op /\ Head(cs).res = "ok"
         THEN <<Head(cs).key>> \o KeysSucceeded(Tail(cs), op)
         ELSE KeysSucceeded(Tail(cs), op)

\* the keys for which a call of the per-key operation settled "fail", in order
RECURSIVE KeysFailed(_)
KeysFailed(cs) ==
    IF cs = <<>> THEN <<>>
    ELSE IF Head(cs).op # "findUsers" /\ Head(cs).res = "fail"
         THEN <<Head(cs).key>> \o KeysFailed(Tail(cs))
         ELSE KeysFailed(Tail(cs))

\* the call that changes the issue
MutatingOp(tool) == IF tool = "add-labels" THEN "editIssue" ELSE PerKeyFirstOp(tool)

\* a batch call that got past its argument checks and, for assign-issue, resolved
\* the assignee: the per-key loop runs
InLoop ==
    /\ req.tool \in BatchTools
    /\ req.a1.t = "array" /\ req.a1.v # <<>>
    /\ pc \in {"getIssue", "editIssue", "doTransition", "assignIssue"}

LoopDone ==
    /\ req.tool \in BatchTools
    /\ pc = "done"
    /\ \E i \in DOMAIN calls : calls[i].op = PerKeyFirstOp(req.tool)

\* the batch call's arguments as the claims describe a rejected call
KeysNotNonEmptyArray == req.a1.t # "array" \/ req.a1.v = <<>>

SecondMissingEmptyOrWrongType ==
    IF req.tool = "add-labels"
    THEN req.a2.t # "array" \/ req.a2.v = <<>>
    ELSE req.a2.t # "string" \/ req.a2.v = <<>>

BadBatchArguments ==
    /\ req.tool \in BatchTools
    /\ KeysNotNonEmptyArray \/ SecondMissingEmptyOrWrongType

ErrorFlagSet == response.kind = "result" /\ response.isError = "true"

----------------------------------------------------------------------------
(* Properties *)

\* C1: in a batch call whose per-key loop runs, the per-key operation is attempted
\* for every key, once per occurrence and in list order: while the loop is at index
\* idx the keys attempted are the first idx keys, whatever the outcomes so far, and
\* when the call ends they are the whole list; in add-labels every successful read
\* is followed by the write on the same key.
C1_EveryKeyAttempted ==
    /\ InLoop => KeysOfCalls(calls, PerKeyFirstOp(req.tool)) = SubSeq(req.a1.v, 1, idx)
    /\ LoopDone => KeysOfCalls(calls, PerKeyFirstOp(req.tool)) = req.a1.v
    /\ (InLoop \/ LoopDone) /\ req.tool = "add-labels" =>
          \A i \in DOMAIN calls :
             calls[i].op = "getIssue" /\ calls[i].res = "ok" =>
                /\ i < Len(calls)
                /\ calls[i + 1].op = "editIssue"
                /\ calls[i + 1].key = calls[i].key

\* a call of three keys (K1 twice) ended, the second key failed and the third was attempted
C1_Witness ==
    /\ LoopDone
    /\ Len(req.a1.v) = 3
    /\ errors = <<"K2">>
    /\ results = <<"K1", "K1">>

\* C2: when a batch call that reached the loop ends, its error flag is set if and
\* only if no key's mutating call succeeded.
C2_ErrorFlagIffAllFailed ==
    LoopDone =>
       /\ response.kind = "result"
       /\ ErrorFlagSet <=> (KeysSucceeded(calls, MutatingOp(req.tool)) = <<>>)

\* a call of two keys ended with both failed, and its error flag is set
C2_Witness ==
    /\ LoopDone
    /\ Len(req.a1.v) = 2
    /\ KeysFailed(calls) = req.a1.v
    /\ ErrorFlagSet

\* C3 (as claimed): when a batch call that reached the loop ends, the success group
\* of the text names exactly the keys that succeeded, the failure group exactly
\* the keys that failed, and the two reported counts add up to the number of keys.
C3_TextNamesEveryKey ==
    LoopDone =>
       /\ response.text.okKeys = KeysSucceeded(calls, MutatingOp(req.tool))
       /\ response.text.failKeys = KeysFailed(calls)
       /\ response.text.okCount + response.text.failCount = Len(req.a1.v)

\* C4 (as claimed): when the remote call of add-comment, update-description,
\* list-child-issues, list-sprint-tickets or get-ticket-details fails, the call ends
\* with a response whose error flag is set.
C4_RemoteFailureIsFlagged ==
    (pc = "done" /\ req.tool \in SimpleTools /\ calls # <<>> /\ calls[1].res = "fail")
       => ErrorFlagSet

\* C5: a call-tool request with an unregistered name ends at once with an error for
\* that call, issues no remote call and leaves the custom field map and the
\* start-up and serving state as they were; the server goes on serving.
C5_UnknownToolIsHarmless ==
    /\ [][(pc = "idle" /\ pc' # "idle" /\ req'.tool \notin SwitchCases \cup {"tools/list"})
            => /\ pc' = "done"
               /\ response'.kind = "thrown"
               /\ calls' = <<>>
               /\ UNCHANGED <<initPc, serverPc, customFieldsMap, initFailed>>]_vars
    /\ [](unknownSeen => serverPc = "serving")

\* after an unknown name was requested, a registered tool was called and answered
C5_Witness ==
    /\ unknownSeen
    /\ pc = "done"
    /\ req.tool \in SwitchCases
    /\ response.kind = "result"
    /\ calls # <<>> /\ calls[1].res = "ok"

\* C6: a batch call whose issueKeys is not a non-empty array, or whose other
\* required argument is missing, empty or of the wrong type, is over as soon as it
\* is dispatched and has issued no remote call.
C6_RejectedBeforeAnyRemoteCall ==
    BadBatchArguments => pc = "done" /\ calls = <<>> /\ response.kind = "result"

\* a transition-issues call with keys and an empty transitionId has returned
C6_Witness ==
    /\ pc = "done"
    /\ req.tool = "transition-issues"
    /\ req.a1.t = "array" /\ req.a1.v # <<>>
    /\ req.a2 = Str(<<>>)
    /\ response.kind = "result"

\* C7 (as claimed): a batch call rejected by the argument checks returns a response
\* whose error flag is set.
C7_RejectionIsFlagged ==
    BadBatchArguments /\ pc = "done" => ErrorFlagSet

\* C8: once initializeCustomFields has returned, no step changes the custom field map.
C8_MapReadOnlyAfterInit ==
    [][initPc = "done" => customFieldsMap' = customFieldsMap]_vars

\* list-issue-fields fetched the catalog successfully while the map, left empty by
\* a failed start-up fetch, stayed empty
C8_Witness ==
    /\ initPc = "done" /\ initFailed
    /\ pc = "done"
    /\ req.tool = "list-issue-fields"
    /\ calls[1].res = "ok"
    /\ customFieldsMap = EmptyMap

\* C9: the server serves, and a request is handled, only when
\* initializeCustomFields has returned.
C9_ServesOnlyAfterInit ==
    (serverPc = "serving" \/ pc # "idle" \/ req # NoReq) => initPc = "done"

\* get-ticket-details was answered with a filled map
C9_Witness ==
    /\ serverPc = "serving"
    /\ pc = "done"
    /\ req.tool = "get-ticket-details"
    /\ response.kind = "result"
    /\ customFieldsMap # EmptyMap

Qualifies(f) == f.custom /\ f.name # "" /\ f.id # ""

LastOfItsName(catalog, i) ==
    /\ Qualifies(catalog[i])
    /\ \A j \in DOMAIN catalog :
          (j > i /\ Qualifies(catalog[j])) => catalog[j].name # catalog[i].name

HandledSeparately(tool, k, v) ==
    \/ k = "description"
    \/ tool = "create-ticket" /\ k \in CoreCreateFields
    \/ k = "assignee" /\ v = AssigneeByName

\* C12 (as claimed): whenever update-issue or create-ticket sends its editIssue or
\* createIssue call, every supplied field that is not handled apart is in the
\* payload with the value it was given, under the mapped identifier when its key is
\* a name of the custom field map and under its own key otherwise.
C12_FieldsSentUnderResolvedKeys ==
    req.tool \in {"update-issue", "create-ticket"} =>
       \A i \in DOMAIN calls :
          calls[i].op \in {"editIssue", "createIssue"} =>
             \A j \in DOMAIN req.a2.v :
                LET k == req.a2.v[j][1]
                    v == req.a2.v[j][2]
                    sent == ResolveFieldKey(customFieldsMap, k)
                IN  ~HandledSeparately(req.tool, k, v) =>
                       /\ HasKey(calls[i].fields, sent)
                       /\ ObjGet(calls[i].fields, sent) = v

\* the number of calls of cs made with operation op
CountOfCalls(cs, op) == Len(KeysOfCalls(cs, op))

\* C13: within a tool call no failed remote operation is invoked again.  In the
\* per-key loop of a batch tool a step that issues a call after a failed call, or
\* after the mutating call of a key, moves on to the next list position, so the
\* mutating operation is attempted at most once per position; outside the loops a
\* failed remote call is the last call of its tool call, which has ended.
C13_FailedCallIsNotRepeated ==
    /\ [][(Len(calls') = Len(calls) + 1 /\ calls # <<>>) =>
            LET settled == calls'[Len(calls)]
            IN  /\ settled.res = "fail" =>
                      /\ req.tool \in BatchTools
                      /\ settled.op # "findUsers"
                /\ (req.tool \in BatchTools
                      /\ (settled.res = "fail" \/ settled.op = MutatingOp(req.tool))) =>
                      /\ idx' = idx + 1
                      /\ calls'[Len(calls')].op = PerKeyFirstOp(req.tool)
                      /\ calls'[Len(calls')].key = req.a1.v[idx']]_vars
    /\ [](InLoop => CountOfCalls(calls, MutatingOp(req.tool)) <= idx)
    /\ [](LoopDone => CountOfCalls(calls, MutatingOp(req.tool)) <= Len(req.a1.v))
    /\ [](\A i \in DOMAIN calls :
             (calls[i].res = "fail" /\ (req.tool \notin BatchTools \/ calls[i].op = "findUsers"))
                => i = Len(calls) /\ pc = "done")

\* a transition-issues call of two keys ended: the transition of the first key
\* failed, and the only call after it is the transition of the second key
C13_Witness ==
    /\ LoopDone
    /\ req.tool = "transition-issues"
    /\ Len(req.a1.v) = 2
    /\ Len(calls) = 2
    /\ calls[1].res = "fail" /\ calls[1].key = req.a1.v[1]
    /\ calls[2].res = "ok" /\ calls[2].key = req.a1.v[2]

\* C14: within a tool call at most one remote call is outstanding, and it is the one
\* issued last (a call is issued only when every earlier one has settled); a tool
\* call that has ended has no call outstanding, and once its response is there it
\* issues no further call.
C14_OneCallAtATime ==
    /\ [](\A i \in DOMAIN calls : calls[i].res = "pending" => i = Len(calls))
    /\ [](pc \in {"idle", "done"} => \A i \in DOMAIN calls : calls[i].res # "pending")
    /\ [](pc \notin {"idle", "done"} => calls # <<>> /\ calls[Len(calls)].res = "pending")
    /\ [][pc = "done" => calls' = <<>>]_vars

\* the list-users module fetched two full pages and a short one, one after the
\* other, and answered
C14_Witness ==
    /\ pc = "done"
    /\ req.tool = "list-users" /\ req.impl = "module"
    /\ Len(calls) = 3
    /\ \A i \in DOMAIN calls : calls[i].res = "ok"
    /\ response.kind = "result"

\* C15 (as claimed): when the remote call a tool call ended on failed with an error
\* that carries response data, and the tool call ended in an error (a response
\* whose error flag is set, or an exception), the error text holds the error's
\* message and the response data.
C15_ErrorTextHasMessageAndPayload ==
    (/\ pc = "done"
     /\ calls # <<>> /\ calls[Len(calls)].res = "fail"
     /\ lastError = "payload"
     /\ ErrorFlagSet \/ response.kind = "thrown")
       => response.text.errMessage /\ response.text.errData

\* the renderer was evaluated on the argument
Rendered == fn = "extractTextFromADF" /\ ret # <<>>

\* C16 (as claimed): the renderer returns a string, and throws nothing, on every
\* input: null, a string, a node with empty or missing children, a node of an
\* unknown kind, and a paragraph or list whose content is no array or has a null
\* element.
C16_RendererNeverThrows ==
    Rendered => ret[1].ok

\* every character of the text is white space
Blank(text) == \A i \in DOMAIN text : text[i] \in WhiteSpace

\* a paragraph whose children are objects with a blank text or none
BlankParagraph(node) ==
    /\ TypeOf(node) = "paragraph"
    /\ ContentOf(node).t = "array"
    /\ \A i \in DOMAIN ContentOf(node).v :
          LET child == ContentOf(node).v[i]
          IN  /\ child.t = "object"
              /\ child.v.text.t = "string" => Blank(child.v.text.v)

\* C17: the document buildADF makes of a text t that is not blank renders, at
\* depth 0, to trim(t) and one newline, with no indentation; a paragraph all of
\* whose child texts are blank renders to the empty string, at every depth.
C17_SingleParagraphRendersTrimmedLine ==
    Rendered =>
      /\ \A t \in Texts :
            (arg.node = buildADF(t) /\ arg.depth = 0 /\ ~Blank(t))
               => ret[1] = Returned(Trim(t) \o <<NewLine>>)
      /\ BlankParagraph(arg.node) => ret[1] = Returned(<<>>)

\* the document of the text " a" was rendered to "a" and a newline
C17_Witness ==
    /\ Rendered
    /\ arg.node = buildADF(<<" ", "a">>) /\ arg.depth = 0
    /\ ret[1] = Returned(<<"a", NewLine>>)

\* a bullet or ordered list whose elements are list items with an array of
\* children, none of which makes the renderer throw
ListOfItems(node, depth) ==
    /\ TypeOf(node) \in {"bulletList", "orderedList"}
    /\ ContentOf(node).t = "array"
    /\ \A i \in DOMAIN ContentOf(node).v :
          LET item == ContentOf(node).v[i]
          IN  /\ TypeOf(item) = "listItem"
              /\ ContentOf(item).t = "array"
              /\ JoinRendered(ContentOf(item).v, depth + 1).ok

\* the concatenation of a sequence of strings
RECURSIVE Concat(_)
Concat(lines) == IF lines = <<>> THEN <<>> ELSE Head(lines) \o Concat(Tail(lines))

\* a list item whose one child is a paragraph of one text node, the text having
\* no line break inside
SingleParagraphItem(item) ==
    \E t \in Texts :
       /\ item = ListItem(<<Paragraph(t)>>)
       /\ \A i \in DOMAIN Trim(t) : Trim(t)[i] # NewLine

\* C18: a bullet or ordered list at depth d renders to the lines of its list
\* items in their order, the line of an item being 2*d spaces, the bullet glyph,
\* a space, the trimmed rendering of the item's children at depth d+1, and a
\* newline; at depth 0 a list of n single-paragraph items renders to n lines, each
\* of which starts with the bullet glyph.
C18_ListRendersOneLinePerItem ==
    (Rendered /\ ListOfItems(arg.node, arg.depth)) =>
      LET items == ContentOf(arg.node).v
          d == arg.depth
          line == [i \in DOMAIN items |->
                     Repeat(<<" ">>, 2 * d) \o <<Bullet, " ">>
                       \o Trim(JoinRendered(ContentOf(items[i]).v, d + 1).s)
                       \o <<NewLine>>]
          text == ret[1].s
      IN  /\ ret[1].ok
          /\ text = Concat(line)
          /\ (d = 0 /\ \A i \in DOMAIN items : SingleParagraphItem(items[i])) =>
                /\ Cardinality({i \in DOMAIN text : text[i] = NewLine}) = Len(items)
                /\ \A i \in DOMAIN text :
                      (i = 1 \/ text[i - 1] = NewLine) => text[i] = Bullet
                /\ text # <<>> => text[Len(text)] = NewLine

\* a list of two items was rendered at depth 1, the second item holding a
\* paragraph and a nested list
C18_Witness ==
    /\ Rendered
    /\ arg.depth = 1
    /\ arg.node = Obj("bulletList",
                      Arr(<<ListItem(<<Paragraph(<<" ", "a">>)>>),
                            ListItem(<<Paragraph(<<"a">>), InnerList>>)>>),
                      Undefined)
    /\ ret[1].ok /\ Len(ret[1].s) > 0

\* C19 (as claimed): on null or an absent input the renderer returns "No
\* description"; on every string s, the empty string included, at depth d it
\* returns 2*d spaces followed by s.
C19_StringIsReturnedIndented ==
    Rendered =>
      /\ arg.node.t \in {"null", "undefined"} => ret[1] = Returned(NoDescription)
      /\ arg.node.t = "string" =>
            ret[1] = Returned(Repeat(<<" ">>, 2 * arg.depth) \o arg.node.v)

\* hasMeaningfulValue was evaluated on the argument
Judged == fn = "hasMeaningfulValue" /\ ret # <<>>

\* C20: hasMeaningfulValue is false for null, an absent value, a string with no
\* character other than white space, the empty array, an array none of whose
\* elements is meaningful, and a document whose rendered text trims to nothing;
\* it is true for every number, every boolean and every string that has a
\* character other than white space.
C20_MeaningfulValueCases ==
    Judged =>
      /\ arg.t \in {"null", "undefined"} => ret[1] = Answer(FALSE)
      /\ arg.t = "string" => ret[1] = Answer(~Blank(arg.v))
      /\ arg.t \in {"number", "boolean"} => ret[1] = Answer(TRUE)
      /\ (/\ arg.t = "array"
          /\ \A i \in DOMAIN arg.v : hasMeaningfulValue(arg.v[i]) = Answer(FALSE))
            => ret[1] = Answer(FALSE)
      /\ (/\ TypeOf(arg) = "doc"
          /\ extractTextFromADF(arg, 0).ok
          /\ Blank(extractTextFromADF(arg, 0).s))
            => ret[1] = Answer(FALSE)

\* an array of a blank string and of the document of the empty text was judged
\* to have no meaningful value
C20_Witness ==
    /\ Judged
    /\ arg = Arr(<<Str(<<" ">>), buildADF(<<>>)>>)
    /\ ret[1] = Answer(FALSE)

\* C21: when search-issues is given a non-empty jql, the one query sent to the
\* tracker is that jql, whatever projectKey, issueType and statusCategory are; the
\* call is not rejected for its statusCategory, and its response depends on the
\* outcome of the search alone.
C21_CustomJqlIsSentAsGiven ==
    (/\ req.tool = "search-issues"
     /\ req.a1.t = "string" /\ req.a1.v # <<>>
     /\ pc \in {"search", "done"})
       => /\ Len(calls) = 1
          /\ calls[1].op = "searchForIssuesUsingJql"
          /\ calls[1].fields = req.a1.v
          /\ pc = "done" =>
                response \in
                  IF calls[1].res = "fail"
                  THEN {fail(ErrorMessageText("Error searching for issues"))}
                  ELSE {respond(Text("issues")),
                        respond(Text("No issues found matching the criteria"))}

\* a search with a jql and a status category outside the allowed set returned issues
C21_Witness ==
    /\ pc = "done"
    /\ req.tool = "search-issues"
    /\ req.a1 = Str(<<"q">>) /\ req.a4 = Str(<<"Bogus">>) /\ req.a2 = Str(<<"x">>)
    /\ calls[1].res = "ok"
    /\ response = respond(Text("issues"))

\* the elements of a list
Elements(list) == {list[i] : i \in DOMAIN list}

DuplicateFree(list) == \A i, j \in DOMAIN list : list[i] = list[j] => i = j

\* the writer's latest call has written its labels to the issue
Wrote(w) == writers[w].pc = "done" /\ writers[w].ok

\* C22: the list an add-labels call writes to an issue is duplicate-free and holds
\* exactly the labels read from the issue and the labels requested, so no label
\* read is removed; and a write of a call whose labels the issue already had when
\* it was read, the issue not having changed since, leaves the labels of the issue
\* as they are: so does the same call made a second time.
C22_WritesUnionAndIsIdempotent ==
    /\ [](\A w \in Writers :
            writers[w].pc = "editIssue" \/ Wrote(w) =>
               /\ DuplicateFree(writers[w].wrote)
               /\ Elements(writers[w].wrote)
                    = Elements(writers[w].existing) \cup Elements(writers[w].labels)
               /\ Combined(writers[w].wrote, writers[w].labels) = writers[w].wrote)
    /\ [][\A w \in Writers :
            (/\ writers[w].pc = "editIssue" /\ Wrote(w)'
             /\ writers[w].existing = issueLabels
             /\ Elements(writers[w].labels) \subseteq Elements(issueLabels))
               => issueLabels' = issueLabels]_vars

\* a call that added b to an issue labelled c, a was made a second time and wrote
\* again, the other writer never having been called
C22_Witness ==
    /\ Wrote("w1")
    /\ writers["w1"].runs = 2
    /\ writers["w1"].labels = <<"a", "b">>
    /\ writers["w1"].existing = <<"c", "a", "b">>
    /\ issueLabels = <<"c", "a", "b">>
    /\ writers["w2"].pc = "idle"

\* C29 (as claimed): when the labels of the issue are changed by another call
\* between the read and the write of an add-labels call, the issue carries, once both
\* have written, every label that either of them added.
C29_NoLabelLostBetweenReadAndWrite ==
    (\A w \in Writers : Wrote(w))
       => \A w \in Writers : Elements(writers[w].labels) \subseteq Elements(issueLabels)

\* C23 (as claimed): an assign-issue call that got past its argument checks makes
\* one user search, before any assignment; when the search finds no user, several
\* users, or a user without an account id, no issue is assigned and the response has
\* its error flag set; when it finds one user, every key of the call is assigned.
C23_OneSearchThenAssignOrFlaggedError ==
    (pc = "done" /\ req.tool = "assign-issue" /\ calls # <<>>)
       => /\ calls[1].op = "findUsers"
          /\ CountOfCalls(calls, "findUsers") = 1
          /\ user \in {"none", "many", "noAccountId"} => Len(calls) = 1 /\ ErrorFlagSet
          /\ user = "one" => KeysOfCalls(calls, "assignIssue") = req.a1.v

\* the operations of the calls made, in order
OpsOf(cs) == [i \in DOMAIN cs |-> cs[i].op]

\* the call runs the sub-ticket code
CreatesSubTicket ==
    \/ req.tool = "create-sub-ticket"
    \/ req.tool = "create-ticket" /\ ~Falsy(req.a3)

\* the names of the sub-task types among the issue types
SubtaskTypeNames(types) == {types[i].name : i \in {j \in DOMAIN types : types[j].subtask}}

\* the first sub-task type among the issue types
FirstSubtaskType(types) ==
    types[CHOOSE i \in DOMAIN types :
             types[i].subtask /\ \A j \in 1..(i - 1) : ~types[j].subtask].name

\* C24: the sub-ticket code calls the tracker in the order getIssue (the parent),
\* getCreateIssueMeta, createIssue; createIssue is called only when both earlier
\* calls succeeded, which includes that the parent has a project; and the issue
\* type it sends is the requested type when that is one of the project's sub-task
\* types, else the first sub-task type, else "Sub-task".
C24_SubTicketCallOrderAndIssueType ==
    (CreatesSubTicket /\ pc # "idle") =>
       /\ \E n \in 1..3 :
             OpsOf(calls) = SubSeq(<<"getIssue", "getCreateIssueMeta", "createIssue">>, 1, n)
       /\ \A i \in DOMAIN calls :
             calls[i].op = "createIssue" =>
                /\ calls[1].res = "ok" /\ calls[2].res = "ok"
                /\ ObjGet(calls[i].fields, "issuetype") =
                      IF RequestedIssueType(req) \in SubtaskTypeNames(results)
                      THEN RequestedIssueType(req)
                      ELSE IF SubtaskTypeNames(results) # {}
                      THEN FirstSubtaskType(results)
                      ELSE "Sub-task"
       /\ \A i \in DOMAIN calls : calls[i].res = "fail" => i = Len(calls)

\* a sub-ticket of type Task was requested in a project whose first sub-task type
\* is Tech, and the sub-ticket was created with type Tech
C24_Witness ==
    /\ pc = "done"
    /\ req.tool = "create-sub-ticket"
    /\ req.a4 = Str(<<"Task">>)
    /\ Len(calls) = 3 /\ calls[3].res = "ok"
    /\ results[1] = IssueType("Tech", TRUE)
    /\ ObjGet(calls[3].fields, "issuetype") = "Tech"

\* the text is "relates to", upper and lower case taken as the same
EqualsRelatesToIgnoringCase(text) ==
    text.t = "string"
      /\ text.v[1] \in {"relates to", "Relates To", "RELATES TO", "Relates to"}

\* the link types fetched have one whose name, inward or outward text is "relates to"
HasRelatesToType ==
    \E i \in DOMAIN results :
       \/ EqualsRelatesToIgnoringCase(results[i].name)
       \/ EqualsRelatesToIgnoringCase(results[i].inward)
       \/ EqualsRelatesToIgnoringCase(results[i].outward)

\* C25: link-tickets calls linkIssues only after getIssueLinkTypes has succeeded
\* and returned a type whose name, inward or outward text is "relates to" in any
\* case; when the fetch fails or no type matches, no link is created and the response
\* has its error flag set; the link has the source key as outward issue and the
\* target key as inward issue.
C25_LinkOnlyAfterRelatesToIsFound ==
    (req.tool = "link-tickets" /\ pc # "idle") =>
       /\ \E n \in 1..2 : OpsOf(calls) = SubSeq(<<"getIssueLinkTypes", "linkIssues">>, 1, n)
       /\ Len(calls) = 2 =>
             /\ calls[1].res = "ok" /\ HasRelatesToType
             /\ ObjGet(calls[2].fields, "outwardIssue") = req.a1.v[1]
             /\ ObjGet(calls[2].fields, "inwardIssue") = req.a2.v[1]
       /\ (pc = "done" /\ (calls[1].res = "fail" \/ ~HasRelatesToType)) =>
             Len(calls) = 1 /\ ErrorFlagSet

\* K1 was linked to K2 through a link type that has no name and whose outward text
\* is "Relates To"
C25_Witness ==
    /\ pc = "done"
    /\ req.tool = "link-tickets"
    /\ req.a1 = Str(<<"K1">>) /\ req.a2 = Str(<<"K2">>)
    /\ Len(calls) = 2 /\ calls[2].res = "ok"
    /\ results[1].name = Undefined
    /\ calls[2].fields = << <<"type", "Relates">>, <<"inwardIssue", "K2">>,
                            <<"outwardIssue", "K1">> >>
    /\ response = respond(Text("Successfully linked"))

\* the number of items of the pages the tracker returned to the calls before call i
FetchedBefore(cs, i) ==
    SumSeq([j \in 1..(i - 1) |->
              IF cs[j].got = <<>> THEN 0
              ELSE IF cs[j].op = "getFiltersPaginated"
                   THEN (IF cs[j].got[1].hasValues THEN cs[j].got[1].length ELSE 0)
                   ELSE cs[j].got[1]])

\* maxResults of the request, 50 when absent, clamped to 1..1000
ClampedMaxResults ==
    LET asked == IF req.a1.t = "undefined" THEN 50 ELSE req.a1.v[1]
    IN  IF asked < 1 THEN 1 ELSE IF asked > 1000 THEN 1000 ELSE asked

\* the paging loop of list-users is at work, or has ended
PagingUsers == req.tool = "list-users" /\ req.impl = "module" /\ pc # "idle"

\* C26: the paging loop of list-users ends, whatever pages the tracker returns;
\* every request asks for min(100, clamped maxResults minus the users collected so
\* far) users, starting at the number of users collected so far; and when no page is
\* longer than asked for, the users collected are at most the clamped maxResults.
C26_UsersPagingTerminatesWithinBound ==
    /\ [](PagingUsers =>
            /\ \A i \in DOMAIN calls :
                  /\ calls[i].op = "findUsers"
                  /\ ObjGet(calls[i].fields, "startAt") = FetchedBefore(calls, i)
                  /\ ObjGet(calls[i].fields, "maxResults")
                       = (IF ClampedMaxResults - FetchedBefore(calls, i) < 100
                          THEN ClampedMaxResults - FetchedBefore(calls, i) ELSE 100)
            /\ SumSeq(results) = FetchedBefore(calls, Len(calls) + 1)
            /\ (\A i \in DOMAIN calls :
                   calls[i].got # <<>> =>
                      calls[i].got[1] <= ObjGet(calls[i].fields, "maxResults"))
                 => SumSeq(results) <= ClampedMaxResults)
    /\ (pc = "usersPage") ~> (pc = "done")

\* 250 users were asked for and collected in pages of 100, 100 and 50
C26_Witness ==
    /\ PagingUsers /\ pc = "done"
    /\ req.a1 = NumOf(250)
    /\ results = <<100, 100, 50>>
    /\ Len(calls) = 3
    /\ response.kind = "result"

\* the page ends the listing: it is marked last, has no last marker, has no values,
\* or has fewer than 50 values
EndsListing(page) ==
    \/ page.isLast = "true"
    \/ page.isLast = "absent"
    \/ ~page.hasValues \/ page.length = 0
    \/ page.length < 50

\* C27: list-jira-filters asks for pages of 50 filters, each starting at the number
\* of filters fetched so far; it asks for a further page after a page exactly when
\* that page does not end the listing (it is not marked last, has the last marker,
\* has values and has at least 50 of them); the filters reported are those of the
\* pages fetched, in order; and the loop ends, the tracker serving a page that ends
\* the listing after at most MaxPages others.
C27_FiltersPagingIsContiguous ==
    /\ [](req.tool = "list-jira-filters" /\ pc # "idle" =>
            /\ \A i \in DOMAIN calls :
                  /\ calls[i].op = "getFiltersPaginated"
                  /\ ObjGet(calls[i].fields, "maxResults") = 50
                  /\ ObjGet(calls[i].fields, "startAt") = FetchedBefore(calls, i)
                  /\ i < Len(calls) => calls[i].got # <<>> /\ ~EndsListing(calls[i].got[1])
                  /\ (i = Len(calls) /\ calls[i].got # <<>>) => EndsListing(calls[i].got[1])
            /\ SumSeq(results) = FetchedBefore(calls, Len(calls) + 1)
            /\ (pc = "done" /\ calls[Len(calls)].res = "ok") =>
                  response = IF SumSeq(results) = 0
                             THEN respond(Text("No filters found."))
                             ELSE respond([Text("Total filters found")
                                             EXCEPT !.okCount = SumSeq(results)]))
    /\ (pc = "filtersPage") ~> (pc = "done")

\* two pages, of 51 and of 50 filters, were followed by a page of one filter
C27_Witness ==
    /\ req.tool = "list-jira-filters" /\ pc = "done"
    /\ results = <<51, 50, 1>>
    /\ ObjGet(calls[3].fields, "startAt") = 101
    /\ response.text.okCount = 102

----------------------------------------------------------------------------
(* C28: the custom fields get-ticket-details lists *)

SectionBuilt == fn = "customFieldsSection" /\ ret # <<>> /\ ret[1].ok

\* the value the issue holds under the field id the map gives the name
RawValue(n) == arg.fields[arg.m[n]]

MeaningfullySet(raw) == hasMeaningfulValue(raw).ok /\ hasMeaningfulValue(raw).b

\* C28: get-ticket-details lists a custom field of the map exactly when the value
\* the issue holds under its field id is meaningfully set; when no field is listed
\* the response has no custom-fields section; and no listed field is shown as
\* "Not set".
C28_ListsExactlyTheMeaningfulFields ==
    SectionBuilt =>
        /\ \A n \in DOMAIN arg.m : n \in DOMAIN ret[1].data <=> MeaningfullySet(RawValue(n))
        /\ (DOMAIN ret[1].data = {} => ret[1].section = "")
        /\ \A n \in DOMAIN ret[1].data : ret[1].data[n] # NotSet

\* the same for the handler module alone
C28_ModuleListsExactlyTheMeaningfulFields ==
    SectionBuilt /\ arg.impl = "module" => C28_ListsExactlyTheMeaningfulFields

\* the inline case has listed a field whose value is null
C28_NullListedAsNotSet ==
    /\ SectionBuilt
    /\ arg.impl = "inline"
    /\ \E n \in DOMAIN ret[1].data : RawValue(n) = Null /\ ret[1].data[n] = NotSet

----------------------------------------------------------------------------
(* C30: the registry and the dispatcher *)

Advertised == Elements(ToolRegistry)

\* the response in hand is the list of tools
ToolsListed == response.kind = "tools"

\* the call in hand ended in the default case of the switch
UnknownToolError == response.kind = "thrown" /\ response.text.tag = "Unknown tool"

\* a call-tool request is in progress or has just been answered
ToolCalled == req.tool \notin {"none", "tools/list"}

\* C30: the registry and the dispatcher agree. Whatever requests came before, the
\* list-tools response is the one list of the registry; the names of that list are
\* pairwise distinct; a call of an advertised name is routed to a case of the switch
\* and never ends in the unknown-tool error; and every name the switch has a case for
\* is advertised, so a call of a name that is not advertised ends in that error.
C30_RegistryAndDispatcherAgree ==
    /\ ToolsListed => response.tools = ToolRegistry
    /\ DuplicateFree(ToolRegistry)
    /\ \A name \in Advertised : Route(name) = name
    /\ \A name \in SwitchCases \cup UnknownNames : Route(name) # "default" => name \in Advertised
    /\ ToolCalled /\ req.tool \in Advertised => ~UnknownToolError
    /\ ToolCalled /\ req.tool \notin Advertised => pc = "done" /\ UnknownToolError

\* the list is returned after a call of an unknown tool and with a filled map
C30_Witness ==
    /\ ToolsListed
    /\ response.tools = ToolRegistry
    /\ unknownSeen
    /\ customFieldsMap # EmptyMap

\* a call of the last advertised name is being handled
C30_RoutedWitness == req.tool = "list-users" /\ pc = "usersPage"

====
